---- MODULE Spec2Model ----
(***************************************************************************)
(* Model of the ddd-rs runtime surface: the in-memory repository (a        *)
(* HashMap behind a RwLock), the Repository / ReadRepository traits with   *)
(* their default methods, and the two domain-event dispatch decorators     *)
(* (DomainRepository and RepositoryEx).                                    *)
(***************************************************************************)
EXTENDS Integers, Sequences, FiniteSets, TLC

\* ------------------------------------------------------------------ bounds

\* identities are 1..MaxId
MaxId == 3
\* identities of the aggregates handed to a decorator are 1..MaxDecoratedId
MaxDecoratedId == 2
\* longest vector handed to a *_range batch method
MaxBatch == 2
\* number of concurrent callers of one repository
NumCallers == 2
\* number of concurrent callers that wait for each other under fairness
NumFairCallers == 3
\* number of aggregates a run allocates (constructed or cloned)
MaxObjects == 3
\* number of register / drain calls made on one aggregate
MaxCalls == 5
\* number of unit variants of the enum a ValueObject is derived on
MaxVariants == 3

Ids == 1..MaxId

\* values of the non-key field (my_field / last_performed_action); a domain
\* event carries one of them as its action
Fields == {"foo", "bar"}

Events == Fields

\* ------------------------------------------------------------- Option<T>

None == <<>>

Some(x) == <<x>>

is_some(o) == o # None

unwrap(o) == o[1]

\* ------------------------------------------------------------- aggregates

\* MyEntity::new(id, my_field): no pending domain events
MyEntity_new(i, f) == [id |-> i, my_field |-> f, domain_events |-> <<>>]

\* Entity::id
id(e) == e.id

\* a register that puts the event at the front of the buffer
register_domain_event_front(e, ev) ==
    [e EXCEPT !.domain_events = <<ev>> \o @]

\* AggregateRoot::register_domain_event: push at the back of the buffer
register_domain_event(e, ev) ==
    [e EXCEPT !.domain_events = Append(@, ev)]

\* a drain that hands the events out and keeps them in the buffer
drain_domain_events_copy(e) == <<e, e.domain_events>>

\* a drain that hands the events out last-registered first
drain_domain_events_reversed(e) ==
    <<[e EXCEPT !.domain_events = <<>>],
      [k \in 1..Len(e.domain_events) |->
          e.domain_events[Len(e.domain_events) + 1 - k]]>>

\* AggregateRoot::drain_domain_events / AggregateRootEx::take_domain_events:
\* the pair <<aggregate with its buffer emptied, the former buffer in order>>
drain_domain_events(e) ==
    <<[e EXCEPT !.domain_events = <<>>], e.domain_events>>

\* the buffers n calls of register_domain_event can build; an event is
\* moved into the buffer, so no event is registered twice
RECURSIVE EventSeqs(_)
EventSeqs(n) ==
    IF n = 0 THEN {<<>>}
    ELSE EventSeqs(n - 1) \cup
         UNION {{register_domain_event([domain_events |-> s], ev).domain_events :
                    ev \in {x \in Events : \A i \in 1..(n - 1) : s[i] # x}} :
                s \in {t \in EventSeqs(n - 1) : Len(t) = n - 1}}

\* every buffer of pending domain events
EventBuffers == EventSeqs(Cardinality(Events))

\* the aggregates of the Repository doctest: MyEntity { id, my_field }
PlainEntities == {MyEntity_new(i, f) : i \in Ids, f \in Fields}

\* ---------------------------------------------------------------- HashMap

\* The map is the sequence of its entries in iteration order; each entry is
\* a record [key, value].

HashMap_new == <<>>

Keys(m) == {m[i].key : i \in 1..Len(m)}

IndexOf(m, k) == CHOOSE i \in 1..Len(m) : m[i].key = k

\* HashMap::get
HashMap_get(m, k) ==
    IF k \in Keys(m) THEN Some(m[IndexOf(m, k)].value) ELSE None

\* HashMap::len
HashMap_len(m) == Len(m)

\* HashMap::values: the values in iteration order
HashMap_values(m) == [i \in 1..Len(m) |-> m[i].value]

\* all sequences obtained from s by putting x at some position
InsertAt(s, x) ==
    {SubSeq(s, 1, p) \o <<x>> \o SubSeq(s, p + 1, Len(s)) : p \in 0..Len(s)}

\* an insert that never looks for the key: every call makes a new entry
HashMap_insert_push(m, k, v) == InsertAt(m, [key |-> k, value |-> v])

\* an insert that overwrites only the key of an existing entry's value:
\* the non-key field of the old value survives
HashMap_insert_merge(m, k, v) ==
    IF k \in Keys(m)
    THEN {[m EXCEPT ![IndexOf(m, k)].value.id = v.id]}
    ELSE InsertAt(m, [key |-> k, value |-> v])

\* HashMap::insert: an existing key keeps its bucket and gets the new value;
\* a new key lands in a bucket the hasher chooses, so anywhere in the
\* iteration order.  The set of possible maps afterwards.
HashMap_insert(m, k, v) ==
    IF k \in Keys(m)
    THEN {[m EXCEPT ![IndexOf(m, k)].value = v]}
    ELSE InsertAt(m, [key |-> k, value |-> v])

\* a remove that empties the map
HashMap_remove_all(m, k) == <<>>

\* HashMap::remove: the entry of k is dropped, the others stay in place
HashMap_remove(m, k) ==
    SelectSeq(m, LAMBDA en : en.key # k)

\* Iterator::skip
Skip(s, n) == SubSeq(s, n + 1, Len(s))

\* Iterator::take
Take(s, n) == SubSeq(s, 1, IF n < Len(s) THEN n ELSE Len(s))

\* ------------------------------------------------------ Result<T, BoxError>

Ok(v) == [ok |-> TRUE, value |-> v]

Err(e) == [ok |-> FALSE, error |-> e]

\* --------------------------------------------------- InMemoryRepository<T>
\* Each operation is given the backing map `m` it finds under the lock.  A
\* read yields its Result; a write yields the set of possible pairs
\* <<map afterwards, Result>>.

\* InMemoryRepository::new
InMemoryRepository_new == HashMap_new

\* ReadRepository::get_by_id for InMemoryRepository
InMemory_get_by_id(m, i) == Ok(HashMap_get(m, i))

\* a list that truncates before it skips: .take(take).skip(skip)
InMemory_list_take_first(m, skip, take) ==
    Ok(Skip(Take(HashMap_values(m), take), skip))

\* ReadRepository::list for InMemoryRepository
InMemory_list(m, skip, take) == Ok(Take(Skip(HashMap_values(m), skip), take))

\* ReadRepository::count for InMemoryRepository
InMemory_count(m) == Ok(HashMap_len(m))

\* ReadRepository::exists (default method): get_by_id(id).map(|e| e.is_some())
InMemory_exists(m, i) ==
    LET r == InMemory_get_by_id(m, i)
    IN  IF r.ok THEN Ok(is_some(r.value)) ELSE r

\* ReadRepository::is_empty (default method): count().map(|c| c == 0)
InMemory_is_empty(m) ==
    LET r == InMemory_count(m)
    IN  IF r.ok THEN Ok(r.value = 0) ELSE r

\* an add that keeps an entry already stored: entry(id).or_insert(entity)
InMemory_add_or_insert(m, entity) ==
    IF id(entity) \in Keys(m)
    THEN {<<m, Ok(entity)>>}
    ELSE {<<m2, Ok(entity)>> : m2 \in HashMap_insert(m, id(entity), entity)}

\* an add that raises "already exists" for an identity that is stored
InMemory_add_new_only(m, entity) ==
    IF id(entity) \in Keys(m)
    THEN {<<m, Err("AlreadyExists")>>}
    ELSE {<<m2, Ok(entity)>> : m2 \in HashMap_insert(m, id(entity), entity)}

\* an add that keys the new entry by the number of entries, not by id()
InMemory_add_by_count(m, entity) ==
    {<<m2, Ok(entity)>> : m2 \in HashMap_insert(m, HashMap_len(m) + 1, entity)}

\* Repository::add for InMemoryRepository
InMemory_add(m, entity) ==
    {<<m2, Ok(entity)>> : m2 \in HashMap_insert(m, id(entity), entity)}

\* an update that refuses an identity that is not stored
InMemory_update_strict(m, entity) ==
    IF id(entity) \in Keys(m)
    THEN {<<m2, Ok(entity)>> : m2 \in HashMap_insert(m, id(entity), entity)}
    ELSE {<<m, Err("NotFound")>>}

\* Repository::update for InMemoryRepository: self.add(entity).await
InMemory_update(m, entity) == InMemory_add(m, entity)

\* a delete that refuses an identity that is not stored
InMemory_delete_strict(m, entity) ==
    IF id(entity) \in Keys(m)
    THEN {<<HashMap_remove(m, id(entity)), Ok(<<>>)>>}
    ELSE {<<m, Err("NotFound")>>}

\* Repository::delete for InMemoryRepository
InMemory_delete(m, entity) ==
    {<<HashMap_remove(m, id(entity)), Ok(<<>>)>>}

\* ------------------------------------------------------------------ state

VARIABLES
    entities,     \* InMemoryRepository.entities: the backing HashMap
    ret,          \* the call that returned last: operation, arguments, Result;
                  \* for a write also the entry found under the identity
                  \* (before) and the write issued before it (prior)
    written,      \* per identity, the aggregate last passed to add / update
                  \* and not deleted since (None otherwise)
    last_write,   \* the write call issued last
    decorator,    \* the repository the caller holds: "InMemoryRepository",
                  \* "DomainRepository" or "RepositoryEx"
    pc,           \* where the running call stands ("idle": none is running)
    frame,        \* the running *_range method, "none" for a singular call
    remaining,    \* how many elements of the vector the batch loop has yet
                  \* to take
    op,           \* the running add / update / delete of the decorator
    given,        \* the aggregate(s) passed to the running call, in order
    entity,       \* local `entity` of the running decorator method
    domain_events,\* local `domain_events`: the events the loop has yet to take
    result,       \* local `result` of the running DomainRepository method
    added_entities, \* local `added_entities` / `updated_entities` of the batch
    trace,        \* what the running call has done so far, in order: calls of
                  \* the wrapped repository and invocations of the handler
    rwlock,       \* the RwLock around the map: the callers holding a read
                  \* guard and the caller holding the write guard, if any
    tasks,        \* per concurrent caller, where its call stands
    heap,         \* the aggregates in memory, by address
    held          \* the addresses of the aggregates the caller owns

memVars == <<entities, ret, written, last_write>>

callVars ==
    <<decorator, pc, frame, remaining, op, given, entity, domain_events,
      result, added_entities, trace>>

lockVars == <<rwlock, tasks>>

heapVars == <<heap, held>>

vars == <<memVars, callVars, lockVars, heapVars>>

\* RwLock::new: nobody holds a guard
RwLock_new == [readers |-> {}, writer |-> None]

\* no concurrent callers are running
InitLock ==
    /\ rwlock = RwLock_new
    /\ tasks = <<>>

\* no aggregate is in memory
InitHeap ==
    /\ heap = <<>>
    /\ held = {}

\* a write call
Write(o, e) == [op |-> o, entity |-> e]

NoWrite == [op |-> "none"]

\* ------------------------------------------ Spec: the in-memory repository
\* One caller issues calls on an InMemoryRepository<MyEntity> one after the
\* other; every call runs to completion (its only suspension point is the
\* call boundary).

Init ==
    /\ entities = InMemoryRepository_new
    /\ ret = [op |-> "new"]
    /\ written = [i \in Ids |-> None]
    /\ last_write = NoWrite
    /\ decorator = "InMemoryRepository"
    /\ pc = "idle"
    /\ frame = "none"
    /\ remaining = 0
    /\ op = "none"
    /\ given = <<>>
    /\ entity = None
    /\ domain_events = <<>>
    /\ result = None
    /\ added_entities = <<>>
    /\ trace = <<>>
    /\ InitLock
    /\ InitHeap

\* repository.add(entity).await
Add(e) ==
    /\ \E out \in InMemory_add(entities, e) :
          /\ entities' = out[1]
          /\ ret' = [op |-> "add", entity |-> e, result |-> out[2],
                     before |-> HashMap_get(entities, id(e)),
                     prior |-> last_write]
    /\ written' = [written EXCEPT ![id(e)] = Some(e)]
    /\ last_write' = Write("add", e)
    /\ UNCHANGED <<callVars, lockVars, heapVars>>

\* repository.update(entity).await
Update(e) ==
    /\ \E out \in InMemory_update(entities, e) :
          /\ entities' = out[1]
          /\ ret' = [op |-> "update", entity |-> e, result |-> out[2],
                     before |-> HashMap_get(entities, id(e)),
                     prior |-> last_write]
    /\ written' = [written EXCEPT ![id(e)] = Some(e)]
    /\ last_write' = Write("update", e)
    /\ UNCHANGED <<callVars, lockVars, heapVars>>

\* repository.delete(entity).await
Delete(e) ==
    /\ \E out \in InMemory_delete(entities, e) :
          /\ entities' = out[1]
          /\ ret' = [op |-> "delete", entity |-> e, result |-> out[2],
                     before |-> HashMap_get(entities, id(e)),
                     prior |-> last_write]
    /\ written' = [written EXCEPT ![id(e)] = None]
    /\ last_write' = Write("delete", e)
    /\ UNCHANGED <<callVars, lockVars, heapVars>>

\* repository.get_by_id(id).await
GetById(i) ==
    /\ ret' = [op |-> "get_by_id", id |-> i, result |-> InMemory_get_by_id(entities, i)]
    /\ UNCHANGED <<entities, written, last_write, lockVars, heapVars, callVars>>

\* repository.list(skip, take).await
List(skip, take) ==
    /\ ret' = [op |-> "list", skip |-> skip, take |-> take,
               result |-> InMemory_list(entities, skip, take)]
    /\ UNCHANGED <<entities, written, last_write, lockVars, heapVars, callVars>>

\* repository.count().await
Count ==
    /\ ret' = [op |-> "count", result |-> InMemory_count(entities)]
    /\ UNCHANGED <<entities, written, last_write, lockVars, heapVars, callVars>>

\* repository.exists(id).await
Exists(i) ==
    /\ ret' = [op |-> "exists", id |-> i, result |-> InMemory_exists(entities, i)]
    /\ UNCHANGED <<entities, written, last_write, lockVars, heapVars, callVars>>

\* repository.is_empty().await
IsEmpty ==
    /\ ret' = [op |-> "is_empty", result |-> InMemory_is_empty(entities)]
    /\ UNCHANGED <<entities, written, last_write, lockVars, heapVars, callVars>>

Next ==
    \/ \E e \in PlainEntities : Add(e)
    \/ \E e \in PlainEntities : Update(e)
    \/ \E e \in PlainEntities : Delete(e)
    \/ \E i \in Ids : GetById(i)
    \/ \E skip \in 0..MaxId, take \in 0..MaxId : List(skip, take)
    \/ Count
    \/ \E i \in Ids : Exists(i)
    \/ IsEmpty

Spec == Init /\ [][Next]_vars

\* ------------------------------------- DecoratedSpec: the event decorators
\* One caller issues add / update / delete and the *_range batch methods on
\* a DomainRepository or a RepositoryEx (chosen when the program wires its
\* repository) that wraps a `Repository<T>`.  The wrapped repository keeps
\* its aggregates as the in-memory repository does and, being any
\* implementation of the trait, may also return an error.  Every await of
\* the decorator is a step.

\* the aggregates handed to a decorator: MyEntity with pending domain events
DecoratedIds == 1..MaxDecoratedId

DecoratedEntities ==
    {[id |-> i, my_field |-> f, domain_events |-> evs] :
        i \in DecoratedIds, f \in Fields, evs \in EventBuffers}

Decorators == {"DomainRepository", "RepositoryEx"}

\* Repository::add / update / delete of the in-memory repository, by name
Repository_call(o, m, e) ==
    CASE o = "add" -> InMemory_add(m, e)
      [] o = "update" -> InMemory_update(m, e)
      [] o = "delete" -> InMemory_delete(m, e)

\* self.repository.<o>(entity).await on the wrapped repository: the outcomes
\* of the in-memory operation, or an error that leaves the store as it was
Wrapped_call(o, m, e) ==
    Repository_call(o, m, e) \cup {<<m, Err("repository")>>}

\* trace entry: the decorator called the wrapped repository with aggregate e
Called(o, e, r) ==
    [kind |-> "repository", elem |-> Len(given) - remaining, op |-> o, entity |-> e,
     result |-> r]

\* trace entry: the handler was invoked with event ev (and, by RepositoryEx,
\* with the entity the call holds) and returned r
Handled(ev, r) ==
    [kind |-> "handle", elem |-> Len(given) - remaining, event |-> ev,
     entity |-> IF decorator = "RepositoryEx" THEN Some(entity) ELSE None,
     result |-> r]

\* the singular operation a batch method applies to each element
Singular(f) ==
    CASE f = "add_range" -> "add"
      [] f = "update_range" -> "update"
      [] f = "delete_range" -> "delete"

\* where a singular call of the decorator starts
Entry(d, o) ==
    IF d = "DomainRepository" THEN "drain"
    ELSE IF o = "delete" THEN "take" ELSE "repository"

InitDecorated ==
    /\ entities = InMemoryRepository_new
    /\ ret = [op |-> "none"]
    /\ written = [i \in Ids |-> None]
    /\ last_write = NoWrite
    /\ decorator \in Decorators
    /\ pc = "idle"
    /\ frame = "none"
    /\ remaining = 0
    /\ op = "none"
    /\ given = <<>>
    /\ entity = None
    /\ domain_events = <<>>
    /\ result = None
    /\ added_entities = <<>>
    /\ trace = <<>>
    /\ InitLock
    /\ InitHeap

\* a batch loop that goes on with the next element after an error
Return_and_continue(r, tr) ==
    /\ op' = "none"
    /\ entity' = None
    /\ domain_events' = <<>>
    /\ result' = None
    /\ IF frame = "none"
       THEN /\ ret' = [op |-> op, given |-> given, result |-> r, trace |-> tr]
            /\ pc' = "done"
            /\ given' = <<>>
            /\ trace' = <<>>
            /\ UNCHANGED <<frame, remaining, added_entities>>
       ELSE /\ added_entities' =
                  IF frame = "delete_range" \/ ~r.ok THEN added_entities
                  ELSE Append(added_entities, r.value)
            /\ pc' = "batch"
            /\ trace' = tr
            /\ UNCHANGED <<ret, frame, remaining, given>>

\* the running singular method returns r, its trace being tr: to the caller,
\* or into the loop of the running batch method (`?` ends the batch on Err)
Return(r, tr) ==
    /\ op' = "none"
    /\ entity' = None
    /\ domain_events' = <<>>
    /\ result' = None
    /\ IF frame = "none"
       THEN /\ ret' = [op |-> op, given |-> given, result |-> r, trace |-> tr]
            /\ pc' = "done"
            /\ given' = <<>>
            /\ trace' = <<>>
            /\ UNCHANGED <<frame, remaining, added_entities>>
       ELSE IF r.ok
       THEN /\ added_entities' =
                  IF frame = "delete_range" THEN added_entities
                  ELSE Append(added_entities, r.value)
            /\ pc' = "batch"
            /\ trace' = tr
            /\ UNCHANGED <<ret, frame, remaining, given>>
       ELSE /\ ret' = [op |-> frame, given |-> given, remaining |-> remaining,
                       result |-> r, trace |-> tr]
            /\ pc' = "done"
            /\ frame' = "none"
            /\ remaining' = 0
            /\ given' = <<>>
            /\ added_entities' = <<>>
            /\ trace' = <<>>

\* the caller awaits decorator.<o>(e)
Call(o, e) ==
    /\ pc = "idle"
    /\ pc' = Entry(decorator, o)
    /\ op' = o
    /\ given' = <<e>>
    /\ entity' = e
    /\ UNCHANGED <<memVars, lockVars, heapVars, decorator, frame, remaining, domain_events,
                   result, added_entities, trace>>

\* DomainRepository::add / update / delete:
\*     let domain_events = entity.drain_domain_events();
DomainRepository_drain ==
    /\ decorator = "DomainRepository"
    /\ pc = "drain"
    /\ entity' = drain_domain_events(entity)[1]
    /\ domain_events' = drain_domain_events(entity)[2]
    /\ pc' = "repository"
    /\ UNCHANGED <<memVars, lockVars, heapVars, decorator, frame, remaining, op, given, result,
                   added_entities, trace>>

\* a DomainRepository that goes on to the handlers whatever the wrapped
\* repository returned
DomainRepository_repository_unchecked ==
    /\ decorator = "DomainRepository"
    /\ pc = "repository"
    /\ \E out \in Wrapped_call(op, entities, entity) :
          /\ entities' = out[1]
          /\ result' = Some(IF out[2].ok THEN out[2].value ELSE entity)
          /\ trace' = Append(trace, Called(op, entity, out[2]))
          /\ pc' = "handle"
    /\ UNCHANGED <<ret, written, last_write, lockVars, heapVars, decorator, frame, remaining, op,
                   given, entity, domain_events, added_entities>>

\* DomainRepository::add / update / delete:
\*     let result = self.repository.<op>(entity).await?;
DomainRepository_repository ==
    /\ decorator = "DomainRepository"
    /\ pc = "repository"
    /\ \E out \in Wrapped_call(op, entities, entity) :
          /\ entities' = out[1]
          /\ IF out[2].ok
             THEN /\ result' = Some(out[2].value)
                  /\ trace' = Append(trace, Called(op, entity, out[2]))
                  /\ pc' = "handle"
                  /\ UNCHANGED <<ret, decorator, frame, remaining, op, given,
                                 entity, domain_events, added_entities>>
             ELSE /\ Return(out[2], Append(trace, Called(op, entity, out[2])))
                  /\ UNCHANGED decorator
    /\ UNCHANGED <<written, last_write, lockVars, heapVars>>

\* a DomainRepository whose loop goes on after a handler error
DomainRepository_handle_all ==
    /\ decorator = "DomainRepository"
    /\ pc = "handle"
    /\ domain_events # <<>>
    /\ \E r \in {Ok(<<>>), Err("handler")} :
          /\ domain_events' = Tail(domain_events)
          /\ trace' = Append(trace, Handled(Head(domain_events), r))
    /\ UNCHANGED <<memVars, lockVars, heapVars, decorator, pc, frame, remaining, op, given, entity,
                   result, added_entities>>

\* DomainRepository::add / update / delete, one turn of
\*     for event in domain_events.into_iter() {
\*         self.domain_event_handler.handle(event).await?;
\*     }
\* the handler returning Ok(()) or an error
DomainRepository_handle ==
    /\ decorator = "DomainRepository"
    /\ pc = "handle"
    /\ domain_events # <<>>
    /\ \E r \in {Ok(<<>>), Err("handler")} :
          IF r.ok
          THEN /\ domain_events' = Tail(domain_events)
               /\ trace' = Append(trace, Handled(Head(domain_events), r))
               /\ UNCHANGED <<ret, pc, frame, remaining, op, given, entity,
                              result, added_entities>>
          ELSE Return(r, Append(trace, Handled(Head(domain_events), r)))
    /\ UNCHANGED <<entities, written, last_write, lockVars, heapVars, decorator>>

\* DomainRepository::add / update / delete: Ok(result) after the loop
DomainRepository_return ==
    /\ decorator = "DomainRepository"
    /\ pc = "handle"
    /\ domain_events = <<>>
    /\ Return(Ok(unwrap(result)), trace)
    /\ UNCHANGED <<entities, written, last_write, lockVars, heapVars, decorator>>

\* RepositoryEx::add / update:
\*     let entity = self.repository.<op>(entity).await?;
\* RepositoryEx::delete, after apply_domain_events:
\*     self.repository.delete(entity).await
RepositoryEx_repository ==
    /\ decorator = "RepositoryEx"
    /\ pc = "repository"
    /\ \E out \in Wrapped_call(op, entities, entity) :
          /\ entities' = out[1]
          /\ IF out[2].ok /\ op # "delete"
             THEN /\ entity' = out[2].value
                  /\ trace' = Append(trace, Called(op, entity, out[2]))
                  /\ pc' = "take"
                  /\ UNCHANGED <<ret, decorator, frame, remaining, op, given,
                                 domain_events, result, added_entities>>
             ELSE /\ Return(out[2], Append(trace, Called(op, entity, out[2])))
                  /\ UNCHANGED decorator
    /\ UNCHANGED <<written, last_write, lockVars, heapVars>>

\* RepositoryEx::apply_domain_events:
\*     let domain_events = entity.take_domain_events();
RepositoryEx_take ==
    /\ decorator = "RepositoryEx"
    /\ pc = "take"
    /\ entity' = drain_domain_events(entity)[1]
    /\ domain_events' = drain_domain_events(entity)[2]
    /\ pc' = "handle"
    /\ UNCHANGED <<memVars, lockVars, heapVars, decorator, frame, remaining, op, given, result,
                   added_entities, trace>>

\* MyDomainEventHandler::handle of the RepositoryEx doctest, given the map
\* it finds: entity.confirm_async_action_performed(action), then
\* self.repository.update(entity).await.  The possible pairs
\* <<map afterwards, Result>>; the async action itself may fail first.
MyDomainEventHandler_handle_unsaved(m, e, ev) ==
    {<<m, Err("handler")>>, <<m, Ok([e EXCEPT !.my_field = ev])>>}

MyDomainEventHandler_handle(m, e, ev) ==
    {<<m, Err("handler")>>}
        \cup Wrapped_call("update", m, [e EXCEPT !.my_field = ev])

\* an apply_domain_events that goes on with the next event after a handler
\* error, keeping the entity it had
RepositoryEx_handle_ignoring ==
    /\ decorator = "RepositoryEx"
    /\ pc = "handle"
    /\ domain_events # <<>>
    /\ \E out \in MyDomainEventHandler_handle(entities, entity, Head(domain_events)) :
          /\ entities' = out[1]
          /\ entity' = IF out[2].ok THEN out[2].value ELSE entity
          /\ domain_events' = Tail(domain_events)
          /\ trace' = Append(trace, Handled(Head(domain_events), out[2]))
    /\ UNCHANGED <<ret, written, last_write, lockVars, heapVars, decorator, pc,
                   frame, remaining, op, given, result, added_entities>>

\* an apply_domain_events that hands every invocation the entity it started
\* with, dropping what the handler returns
RepositoryEx_handle_unchained ==
    /\ decorator = "RepositoryEx"
    /\ pc = "handle"
    /\ domain_events # <<>>
    /\ \E out \in MyDomainEventHandler_handle(entities, entity, Head(domain_events)) :
          /\ entities' = out[1]
          /\ IF out[2].ok
             THEN /\ domain_events' = Tail(domain_events)
                  /\ trace' = Append(trace, Handled(Head(domain_events), out[2]))
                  /\ UNCHANGED <<ret, pc, frame, remaining, op, given, entity,
                                 result, added_entities>>
             ELSE Return(out[2], Append(trace, Handled(Head(domain_events), out[2])))
    /\ UNCHANGED <<written, last_write, lockVars, heapVars, decorator>>

\* RepositoryEx::apply_domain_events, one turn of
\*     for event in domain_events {
\*         entity = self.domain_event_handler.handle(entity, event).await?;
\*     }
RepositoryEx_handle ==
    /\ decorator = "RepositoryEx"
    /\ pc = "handle"
    /\ domain_events # <<>>
    /\ \E out \in MyDomainEventHandler_handle(entities, entity, Head(domain_events)) :
          /\ entities' = out[1]
          /\ IF out[2].ok
             THEN /\ entity' = out[2].value
                  /\ domain_events' = Tail(domain_events)
                  /\ trace' = Append(trace, Handled(Head(domain_events), out[2]))
                  /\ UNCHANGED <<ret, pc, frame, remaining, op, given, result,
                                 added_entities>>
             ELSE Return(out[2], Append(trace, Handled(Head(domain_events), out[2])))
    /\ UNCHANGED <<written, last_write, lockVars, heapVars, decorator>>

\* RepositoryEx::apply_domain_events returns Ok(entity) after the loop: add
\* and update return it, delete goes on to the wrapped repository
RepositoryEx_applied ==
    /\ decorator = "RepositoryEx"
    /\ pc = "handle"
    /\ domain_events = <<>>
    /\ IF op = "delete"
       THEN /\ pc' = "repository"
            /\ UNCHANGED <<ret, frame, remaining, op, given, entity,
                           domain_events, result, added_entities, trace>>
       ELSE Return(Ok(entity), trace)
    /\ UNCHANGED <<entities, written, last_write, lockVars, heapVars, decorator>>

\* the caller awaits decorator.add_range / update_range / delete_range with
\* the vector es:  let mut added_entities = Vec::new();
CallRange(f, es) ==
    /\ pc = "idle"
    /\ pc' = "batch"
    /\ frame' = f
    /\ given' = es
    /\ remaining' = Len(es)
    /\ added_entities' = <<>>
    /\ UNCHANGED <<memVars, lockVars, heapVars, decorator, op, entity, domain_events, result,
                   trace>>

\* a batch loop that takes the next element while the handlers of the
\* current one are still due, leaving them out
Range_next_early ==
    /\ pc \in {"batch", "handle"}
    /\ frame # "none"
    /\ remaining > 0
    /\ remaining' = remaining - 1
    /\ op' = Singular(frame)
    /\ entity' = given[Len(given) - remaining + 1]
    /\ domain_events' = <<>>
    /\ pc' = Entry(decorator, Singular(frame))
    /\ UNCHANGED <<memVars, lockVars, heapVars, decorator, frame, given, result,
                   added_entities, trace>>

\* Repository::add_range / update_range / delete_range (default methods):
\* `for entity in entities` takes the next element of the vector and awaits
\* self.<op>(entity)
Range_next ==
    /\ pc = "batch"
    /\ remaining > 0
    /\ remaining' = remaining - 1
    /\ op' = Singular(frame)
    /\ entity' = given[Len(given) - remaining + 1]
    /\ pc' = Entry(decorator, Singular(frame))
    /\ UNCHANGED <<memVars, lockVars, heapVars, decorator, frame, given, domain_events, result,
                   added_entities, trace>>

\* Repository::add_range / update_range / delete_range: the vector is
\* exhausted, Ok(added_entities) / Ok(updated_entities) / Ok(())
Range_return ==
    /\ pc = "batch"
    /\ remaining = 0
    /\ ret' = [op |-> frame, given |-> given, remaining |-> remaining,
               result |-> Ok(IF frame = "delete_range" THEN <<>> ELSE added_entities),
               trace |-> trace]
    /\ pc' = "done"
    /\ frame' = "none"
    /\ given' = <<>>
    /\ added_entities' = <<>>
    /\ trace' = <<>>
    /\ UNCHANGED <<entities, written, last_write, lockVars, heapVars, decorator, remaining, op,
                   entity, domain_events, result>>

\* the caller has the Result of its call and goes on
Resume ==
    /\ pc = "done"
    /\ pc' = "idle"
    /\ ret' = [op |-> "none"]
    /\ UNCHANGED <<entities, written, last_write, lockVars, heapVars, decorator, frame, remaining,
                   op, given, entity, domain_events, result, added_entities,
                   trace>>

\* a step of the running decorator method
Step ==
    \/ DomainRepository_drain
    \/ DomainRepository_repository
    \/ DomainRepository_handle
    \/ DomainRepository_return
    \/ RepositoryEx_repository
    \/ RepositoryEx_take
    \/ RepositoryEx_handle
    \/ RepositoryEx_applied

NextDecorated ==
    \/ \E o \in {"add", "update", "delete"}, e \in DecoratedEntities : Call(o, e)
    \/ Step
    \/ Resume

DecoratedSpec == InitDecorated /\ [][NextDecorated]_vars

\* ------------------------------------------- RangeSpec: the batch methods
\* The caller awaits one add_range / update_range / delete_range on a
\* decorator whose wrapped repository is new or already holds an aggregate
\* for every identity.

\* the vectors of at most n aggregates
RECURSIVE Vectors(_)
Vectors(n) ==
    IF n = 0 THEN {<<>>}
    ELSE Vectors(n - 1) \cup
         {Append(v, e) : v \in {w \in Vectors(n - 1) : Len(w) = n - 1},
                         e \in DecoratedEntities}

Batches == Vectors(MaxBatch)

\* a repository to which MyEntity::new(i, "foo") was added for every identity
Populated ==
    [i \in DecoratedIds |-> [key |-> i, value |-> MyEntity_new(i, "foo")]]

InitRange ==
    /\ entities \in {InMemoryRepository_new, Populated}
    /\ ret = [op |-> "none"]
    /\ written = [i \in Ids |-> None]
    /\ last_write = NoWrite
    /\ decorator \in Decorators
    /\ pc = "idle"
    /\ frame = "none"
    /\ remaining = 0
    /\ op = "none"
    /\ given = <<>>
    /\ entity = None
    /\ domain_events = <<>>
    /\ result = None
    /\ added_entities = <<>>
    /\ trace = <<>>
    /\ InitLock
    /\ InitHeap

NextRange ==
    \/ /\ pc = "idle"
       /\ \E f \in {"add_range", "update_range", "delete_range"},
             es \in Batches : CallRange(f, es)
    \/ Range_next
    \/ Range_return
    \/ Step

RangeSpec == InitRange /\ [][NextRange]_vars

\* ------------------------------------ ReadSpec: reads through a decorator
\* The caller of DecoratedSpec also reads through the decorator.  Both
\* decorators implement get_by_id, list and count by awaiting the method of
\* the same name on the wrapped repository, and inherit exists and is_empty
\* from ReadRepository.

\* impl ReadRepository for DomainRepository / RepositoryEx:
\*     self.repository.get_by_id(id).await
Decorated_get_by_id(m, i) == InMemory_get_by_id(m, i)

\*     self.repository.list(skip, take).await
Decorated_list(m, skip, take) == InMemory_list(m, skip, take)

\*     self.repository.count().await
Decorated_count(m) == InMemory_count(m)

\* an exists overridden to answer from the count: "is anything stored"
Decorated_exists_any(m, i) ==
    LET r == Decorated_count(m)
    IN  IF r.ok THEN Ok(r.value > 0) ELSE r

\* ReadRepository::exists on a decorator (default method):
\*     self.get_by_id(id).await.map(|e| e.is_some())
Decorated_exists(m, i) ==
    LET r == Decorated_get_by_id(m, i)
    IN  IF r.ok THEN Ok(is_some(r.value)) ELSE r

\* ReadRepository::is_empty on a decorator (default method):
\*     self.count().await.map(|c| c == 0)
Decorated_is_empty(m) ==
    LET r == Decorated_count(m)
    IN  IF r.ok THEN Ok(r.value = 0) ELSE r

\* the caller's read returns r
Returned_read(r) ==
    /\ pc = "idle"
    /\ pc' = "returned"
    /\ ret' = r
    /\ UNCHANGED <<entities, written, last_write, lockVars, heapVars, decorator, frame, remaining,
                   op, given, entity, domain_events, result, added_entities,
                   trace>>

\* decorator.get_by_id(id).await
DecoratedGetById(i) ==
    Returned_read([op |-> "get_by_id", id |-> i,
                   result |-> Decorated_get_by_id(entities, i)])

\* decorator.list(skip, take).await
DecoratedList(skip, take) ==
    Returned_read([op |-> "list", skip |-> skip, take |-> take,
                   result |-> Decorated_list(entities, skip, take)])

\* decorator.count().await
DecoratedCount ==
    Returned_read([op |-> "count", result |-> Decorated_count(entities)])

\* decorator.exists(id).await
DecoratedExists(i) ==
    Returned_read([op |-> "exists", id |-> i,
                   result |-> Decorated_exists(entities, i)])

\* decorator.is_empty().await
DecoratedIsEmpty ==
    Returned_read([op |-> "is_empty", result |-> Decorated_is_empty(entities)])

\* the caller has the Result of its read and goes on
ResumeRead ==
    /\ pc = "returned"
    /\ pc' = "idle"
    /\ ret' = [op |-> "none"]
    /\ UNCHANGED <<entities, written, last_write, lockVars, heapVars, decorator, frame, remaining,
                   op, given, entity, domain_events, result, added_entities,
                   trace>>

NextRead ==
    \/ \E o \in {"add", "update", "delete"}, e \in DecoratedEntities : Call(o, e)
    \/ Step
    \/ Resume
    \/ \E i \in Ids : DecoratedGetById(i)
    \/ \E skip \in 0..MaxDecoratedId, take \in 0..MaxDecoratedId :
          DecoratedList(skip, take)
    \/ DecoratedCount
    \/ \E i \in Ids : DecoratedExists(i)
    \/ DecoratedIsEmpty
    \/ ResumeRead

ReadSpec == InitDecorated /\ [][NextRead]_vars

\* ------------------- MemRangeSpec: batches on the in-memory repository
\* The caller awaits add_range / update_range / delete_range, the default
\* methods of Repository, on an InMemoryRepository that is new or holds an
\* aggregate for every identity, and then goes on with the calls of Spec.

\* Repository::add_range / update_range / delete_range (default methods),
\* the loop over the vector es that is left, `acc` being the results pushed
\* so far:
\*     for entity in entities { self.<o>(entity).await.map(|e| acc.push(e))?; }
\*     Ok(acc)
\* The possible pairs <<map afterwards, Result>>.
RECURSIVE Repository_range(_, _, _, _)
Repository_range(o, m, es, acc) ==
    IF es = <<>>
    THEN {<<m, Ok(IF o = "delete" THEN <<>> ELSE acc)>>}
    ELSE UNION {IF out[2].ok
                THEN Repository_range(o, out[1], Tail(es),
                        IF o = "delete" THEN acc ELSE Append(acc, out[2].value))
                ELSE {out} :
                out \in Repository_call(o, m, Head(es))}

\* the vectors of at most n aggregates of the Repository doctest
RECURSIVE PlainVectors(_)
PlainVectors(n) ==
    IF n = 0 THEN {<<>>}
    ELSE PlainVectors(n - 1) \cup
         {Append(v, e) : v \in {w \in PlainVectors(n - 1) : Len(w) = n - 1},
                         e \in PlainEntities}

PlainBatches == PlainVectors(MaxBatch)

\* `written` after the writes o of the vector es, in order
RECURSIVE WrittenAfter(_, _, _)
WrittenAfter(w, o, es) ==
    IF es = <<>> THEN w
    ELSE WrittenAfter([w EXCEPT ![id(Head(es))] =
                          IF o = "delete" THEN None ELSE Some(Head(es))],
                      o, Tail(es))

\* a repository to which MyEntity::new(i, "foo") was added for every identity
PlainPopulated ==
    [i \in Ids |-> [key |-> i, value |-> MyEntity_new(i, "foo")]]

InitMemRange ==
    /\ entities \in {InMemoryRepository_new, PlainPopulated}
    /\ ret = [op |-> "new"]
    /\ written = [i \in Ids |-> HashMap_get(entities, i)]
    /\ last_write = NoWrite
    /\ decorator = "InMemoryRepository"
    /\ pc = "idle"
    /\ frame = "none"
    /\ remaining = 0
    /\ op = "none"
    /\ given = <<>>
    /\ entity = None
    /\ domain_events = <<>>
    /\ result = None
    /\ added_entities = <<>>
    /\ trace = <<>>
    /\ InitLock
    /\ InitHeap

\* repository.add_range(es).await / update_range / delete_range
MemRange(f, es) ==
    /\ pc = "idle"
    /\ pc' = "done"
    /\ \E out \in Repository_range(Singular(f), entities, es, <<>>) :
          /\ entities' = out[1]
          /\ ret' = [op |-> f, given |-> es, result |-> out[2]]
    /\ written' = WrittenAfter(written, Singular(f), es)
    /\ last_write' = IF es = <<>> THEN last_write
                     ELSE Write(Singular(f), es[Len(es)])
    /\ UNCHANGED <<decorator, frame, remaining, op, given, entity,
                   domain_events, result, added_entities, trace, lockVars,
                   heapVars>>

NextMemRange ==
    \/ /\ pc = "idle"
       /\ \E f \in {"add_range", "update_range", "delete_range"},
             es \in PlainBatches : MemRange(f, es)
    \/ pc = "done" /\ \E e \in PlainEntities : Add(e)
    \/ pc = "done" /\ \E e \in PlainEntities : Update(e)
    \/ pc = "done" /\ \E e \in PlainEntities : Delete(e)
    \/ pc = "done" /\ \E i \in Ids : GetById(i)
    \/ pc = "done" /\ \E skip \in 0..MaxId, take \in 0..MaxId : List(skip, take)
    \/ pc = "done" /\ Count
    \/ pc = "done" /\ \E i \in Ids : Exists(i)
    \/ pc = "done" /\ IsEmpty

MemRangeSpec == InitMemRange /\ [][NextMemRange]_vars

\* ------------------------- LockSpec: concurrent callers of one repository
\* NumCallers tasks call the methods of one InMemoryRepository.  A method
\* first takes its guard on `entities` (a caller that has to wait for the
\* guard has not entered yet), then works on the map, and drops the guard
\* when it returns.  A write to the map is not atomic: between its first
\* and its last store the map is partly modified.

Callers == 1..NumCallers

\* the aggregates the callers write
LockEntities == {MyEntity_new(i, f) : i \in DecoratedIds, f \in Fields}

\* RwLock::read returns at once unless somebody holds the write guard
RwLock_can_read(l) == l.writer = None

\* RwLock::read: one more shared guard
RwLock_read(l, c) == [l EXCEPT !.readers = @ \cup {c}]

\* a write() that never waits
RwLock_can_write_always(l) == TRUE

\* RwLock::write returns at once unless somebody holds any guard
RwLock_can_write(l) == l.writer = None /\ l.readers = {}

\* RwLock::write: the exclusive guard
RwLock_write(l, c) == [l EXCEPT !.writer = Some(c)]

\* a guard that stays locked when it goes out of scope
RwLock_leak(l, c) == l

\* the guard of c goes out of scope
RwLock_drop(l, c) ==
    [readers |-> l.readers \ {c},
     writer |-> IF l.writer = Some(c) THEN None ELSE l.writer]

\* a caller that is not inside a method; `partial` records whether one of
\* its reads ever ran while the map was partly modified.  Inside a method,
\* `locks` counts the guards the running in-memory operation has taken and
\* `todo` holds the repository calls that were made but have not entered
\* their method yet, or that a decorator call has still to make (pc
\* "pending"); a read that was called and has not entered yet is at pc
\* "called".
Idle(partial) ==
    [pc |-> "idle", op |-> "none", arg |-> None, partial |-> partial,
     todo |-> <<>>, locks |-> 0]

InitLockSpec ==
    /\ entities = InMemoryRepository_new
    /\ ret = [op |-> "none"]
    /\ written = [i \in Ids |-> None]
    /\ last_write = NoWrite
    /\ decorator = "InMemoryRepository"
    /\ pc = "idle"
    /\ frame = "none"
    /\ remaining = 0
    /\ op = "none"
    /\ given = <<>>
    /\ entity = None
    /\ domain_events = <<>>
    /\ result = None
    /\ added_entities = <<>>
    /\ trace = <<>>
    /\ rwlock = RwLock_new
    /\ tasks = [c \in Callers |-> Idle(FALSE)]
    /\ InitHeap

\* get_by_id / list / count, first statement:
\*     let ro_entities = self.entities.read().unwrap();
\* executed by a caller that enters the method now, or by one that called
\* it earlier and has been waiting for the guard
Task_read_lock(c, o, arg) ==
    /\ \/ tasks[c].pc = "idle"
       \/ tasks[c].pc = "called" /\ tasks[c].op = o /\ tasks[c].arg = arg
    /\ RwLock_can_read(rwlock)
    /\ rwlock' = RwLock_read(rwlock, c)
    /\ tasks' = [tasks EXCEPT ![c] =
                    [pc |-> "read", op |-> o, arg |-> arg, partial |-> @.partial,
                     todo |-> <<>>, locks |-> 1]]
    /\ UNCHANGED <<memVars, callVars, heapVars>>

\* what a value looks like that was read while it was being overwritten
Torn(i) == [id |-> i, my_field |-> "torn", domain_events |-> <<>>]

\* what the running read of c finds in the map.  A get_by_id that runs while
\* another caller is part-way through a write of the same identity is a data
\* race: it may see the old entry, the new one, or a mixture of both.
Task_read_value(c) ==
    CASE tasks[c].op = "get_by_id" ->
            {InMemory_get_by_id(entities, tasks[c].arg)} \cup
            UNION {{Ok(Some(Torn(tasks[c].arg))), Ok(None), Ok(Some(tasks[d].arg))} :
                      d \in {d \in DOMAIN tasks : /\ tasks[d].pc = "partly"
                                             /\ id(tasks[d].arg) = tasks[c].arg}}
      [] tasks[c].op = "list" ->
            {InMemory_list(entities, tasks[c].arg[1], tasks[c].arg[2])}
      [] tasks[c].op = "count" -> {InMemory_count(entities)}

\* get_by_id / list / count, second statement: the map is read (get /
\* values / len) and the answer cloned, under the guard
Task_read_map(c) ==
    /\ tasks[c].pc = "read"
    /\ \E r \in Task_read_value(c) :
          tasks' = [tasks EXCEPT ![c] =
                       [@ EXCEPT !.pc = "got", !.arg = <<@, r>>,
                                 !.partial = @ \/ \E d \in DOMAIN tasks :
                                                     tasks[d].pc = "partly"]]
    /\ UNCHANGED <<memVars, callVars, rwlock, heapVars>>

\* get_by_id / list / count: Ok(..) is returned and ro_entities is dropped
Task_read_return(c) ==
    /\ tasks[c].pc = "got"
    /\ rwlock' = RwLock_drop(rwlock, c)
    /\ tasks' = [tasks EXCEPT ![c] = Idle(@.partial)]
    /\ UNCHANGED <<memVars, callVars, heapVars>>

\* update, its only statement: self.add(entity).await -- the caller is at
\* an await, about to enter add, and has taken no guard
Task_update(c, e) ==
    /\ \/ tasks[c].pc = "idle" /\ tasks' = [tasks EXCEPT ![c] =
              [pc |-> "await", op |-> "update", arg |-> e, partial |-> @.partial,
               todo |-> <<>>, locks |-> 0]]
       \/ /\ tasks[c].pc = "pending"
          /\ Head(tasks[c].todo).op = "update"
          /\ Head(tasks[c].todo).entity = e
          /\ tasks' = [tasks EXCEPT ![c] =
              [pc |-> "await", op |-> "update", arg |-> e, partial |-> @.partial,
               todo |-> Tail(@.todo), locks |-> 0]]
    /\ UNCHANGED <<memVars, callVars, rwlock, heapVars>>

\* whether c is about to execute the first statement of add / delete with
\* the aggregate e: called by the caller, by update, or by a decorator
Task_enters(c, o, e) ==
    \/ tasks[c].pc = "idle" /\ o \in {"add", "delete"}
    \/ tasks[c].pc = "await" /\ o = "update" /\ tasks[c].arg = e
    \/ /\ tasks[c].pc = "pending"
       /\ o \in {"add", "delete"}
       /\ Head(tasks[c].todo).op = o
       /\ Head(tasks[c].todo).entity = e

\* the caller c inside add (entered as such or from update) or delete
Task_entered(c, o, e) ==
    [pc |-> "write", op |-> o, arg |-> e, partial |-> tasks[c].partial,
     todo |-> IF tasks[c].pc = "pending" THEN Tail(tasks[c].todo)
              ELSE tasks[c].todo,
     locks |-> IF tasks[c].pc = "await" THEN tasks[c].locks + 1 ELSE 1]

\* a write method that takes the shared guard
Task_write_lock_shared(c, o, e) ==
    /\ Task_enters(c, o, e)
    /\ RwLock_can_read(rwlock)
    /\ rwlock' = RwLock_read(rwlock, c)
    /\ tasks' = [tasks EXCEPT ![c] = Task_entered(c, o, e)]
    /\ written' = [written EXCEPT ![id(e)] =
                      IF o = "delete" THEN None ELSE Some(e)]
    /\ UNCHANGED <<entities, ret, last_write, callVars, heapVars>>

\* add / delete, first statement (update is self.add(entity).await):
\*     let mut wo_entities = self.entities.write().unwrap();
\* `written` keeps, per identity, what the write that took the guard last
\* is going to leave in the map
Task_write_lock(c, o, e) ==
    /\ Task_enters(c, o, e)
    /\ RwLock_can_write(rwlock)
    /\ rwlock' = RwLock_write(rwlock, c)
    /\ tasks' = [tasks EXCEPT ![c] = Task_entered(c, o, e)]
    /\ written' = [written EXCEPT ![id(e)] =
                      IF o = "delete" THEN None ELSE Some(e)]
    /\ UNCHANGED <<entities, ret, last_write, callVars, heapVars>>

\* add / delete: wo_entities.insert / remove starts to modify the map
Task_write_begin(c) ==
    /\ tasks[c].pc = "write"
    /\ tasks' = [tasks EXCEPT ![c].pc = "partly"]
    /\ UNCHANGED <<memVars, callVars, rwlock, heapVars>>

\* a write call whose guard stays locked while the decorator goes on
Task_write_end_holding(c) ==
    /\ tasks[c].pc = "partly"
    /\ \E out \in Repository_call(tasks[c].op, entities, tasks[c].arg) :
          entities' = out[1]
    /\ rwlock' = IF tasks[c].todo = <<>> THEN RwLock_drop(rwlock, c) ELSE rwlock
    /\ tasks' = [tasks EXCEPT ![c] =
                    IF @.todo = <<>> THEN Idle(@.partial)
                    ELSE [@ EXCEPT !.pc = "pending", !.locks = 0]]
    /\ UNCHANGED <<ret, written, last_write, callVars, heapVars>>

\* add / delete: insert / remove is complete, the method returns and
\* wo_entities is dropped; a decorator call goes on with its next step
Task_write_end(c) ==
    /\ tasks[c].pc = "partly"
    /\ \E out \in Repository_call(tasks[c].op, entities, tasks[c].arg) :
          entities' = out[1]
    /\ rwlock' = RwLock_drop(rwlock, c)
    /\ tasks' = [tasks EXCEPT ![c] =
                    IF @.todo = <<>> THEN Idle(@.partial)
                    ELSE [@ EXCEPT !.pc = "pending", !.locks = 0]]
    /\ UNCHANGED <<ret, written, last_write, callVars, heapVars>>

NextLock ==
    \/ \E c \in Callers, i \in DecoratedIds : Task_read_lock(c, "get_by_id", i)
    \/ \E c \in Callers : Task_read_lock(c, "list", <<0, MaxDecoratedId>>)
    \/ \E c \in Callers : Task_read_lock(c, "count", None)
    \/ \E c \in Callers : Task_read_map(c)
    \/ \E c \in Callers : Task_read_return(c)
    \/ \E c \in Callers, e \in LockEntities : Task_update(c, e)
    \/ \E c \in Callers, o \in {"add", "update", "delete"}, e \in LockEntities :
          Task_write_lock(c, o, e)
    \/ \E c \in Callers : Task_write_begin(c)
    \/ \E c \in Callers : Task_write_end(c)

LockSpec == InitLockSpec /\ [][NextLock]_vars

\* ------------------------------ FairSpec: calls in progress, fair scheduler
\* NumFairCallers tasks share one InMemoryRepository; they call it directly
\* or through a RepositoryEx whose handler is the doctest's
\* MyDomainEventHandler, which holds the same repository.  A call is in
\* progress from the moment it is made: it may have to wait for the guard
\* before it enters the method.

FairCallers == 1..NumFairCallers

\* the callers contend for one identity: the guard protects the whole map,
\* whatever the identity
FairIds == {MaxDecoratedId}

\* the aggregates passed to the calls, each with one pending event
FairEntities ==
    {[id |-> i, my_field |-> "foo", domain_events |-> <<"bar">>] : i \in FairIds}

\* every aggregate that reaches the in-memory repository: the ones passed to
\* the calls and the ones a handler passes to update
FairWritten == FairEntities \cup {MyEntity_new(i, f) : i \in FairIds, f \in Fields}

InitFair ==
    /\ entities = InMemoryRepository_new
    /\ ret = [op |-> "none"]
    /\ written = [i \in Ids |-> None]
    /\ last_write = NoWrite
    /\ decorator = "RepositoryEx"
    /\ pc = "idle"
    /\ frame = "none"
    /\ remaining = 0
    /\ op = "none"
    /\ given = <<>>
    /\ entity = None
    /\ domain_events = <<>>
    /\ result = None
    /\ added_entities = <<>>
    /\ trace = <<>>
    /\ rwlock = RwLock_new
    /\ tasks = [c \in FairCallers |-> Idle(FALSE)]
    /\ InitHeap

\* a handler invocation the decorator has still to make, with the aggregate
\* it is given
Handle(e, ev) == [op |-> "handle", entity |-> e, event |-> ev]

\* the aggregate after the handlers of the first k of its events
Confirmed(e, k) ==
    IF k = 0 THEN drain_domain_events(e)[1]
    ELSE [drain_domain_events(e)[1] EXCEPT !.my_field = e.domain_events[k]]

\* RepositoryEx::apply_domain_events: one handler invocation per event, in
\* order, each with the aggregate the previous one returned
RepositoryEx_apply_domain_events(e) ==
    [k \in 1..Len(e.domain_events) |-> Handle(Confirmed(e, k - 1), e.domain_events[k])]

\* RepositoryEx::add / update: the wrapped call, then apply_domain_events;
\* RepositoryEx::delete: apply_domain_events, then the wrapped delete
RepositoryEx_steps(o, e) ==
    IF o = "delete"
    THEN RepositoryEx_apply_domain_events(e)
            \o <<Write("delete", Confirmed(e, Len(e.domain_events)))>>
    ELSE <<Write(o, e)>> \o RepositoryEx_apply_domain_events(e)

\* a caller calls a read method of the in-memory repository
Task_call_read(c, o, arg) ==
    /\ tasks[c].pc = "idle"
    /\ tasks' = [tasks EXCEPT ![c] = [@ EXCEPT !.pc = "called", !.op = o, !.arg = arg]]
    /\ UNCHANGED <<memVars, callVars, rwlock, heapVars>>

\* a caller makes a call that has these writes and handler invocations to go
\* through
Task_call(c, steps) ==
    /\ tasks[c].pc = "idle"
    /\ tasks' = [tasks EXCEPT ![c] = [@ EXCEPT !.pc = "pending", !.todo = steps]]
    /\ UNCHANGED <<memVars, callVars, rwlock, heapVars>>

\* MyDomainEventHandler::handle: the async action fails and the `?` of
\* apply_domain_events ends the decorator call, or the action is confirmed on
\* the aggregate and the handler goes on to self.repository.update(entity)
Task_handle(c) ==
    /\ tasks[c].pc = "pending"
    /\ Head(tasks[c].todo).op = "handle"
    /\ \/ tasks' = [tasks EXCEPT ![c] = Idle(@.partial)]
       \/ LET h == Head(tasks[c].todo)
          IN  tasks' = [tasks EXCEPT ![c].todo =
                           <<Write("update", [h.entity EXCEPT !.my_field = h.event])>>
                               \o Tail(@)]
    /\ UNCHANGED <<memVars, callVars, rwlock, heapVars>>

\* the steps of caller c that wait for nothing
Task_runs(c) ==
    \/ Task_read_map(c)
    \/ Task_read_return(c)
    \/ \E e \in FairWritten : Task_update(c, e)
    \/ Task_handle(c)
    \/ Task_write_begin(c)
    \/ Task_write_end(c)

\* the steps of caller c that wait for the guard
Task_locks(c) ==
    \/ \E i \in FairIds : Task_read_lock(c, "get_by_id", i)
    \/ \E o \in {"add", "update", "delete"}, e \in FairWritten :
          Task_write_lock(c, o, e)

\* the calls a caller makes: get_by_id on the in-memory repository itself,
\* add / update / delete on the RepositoryEx around it (whose wrapped calls
\* and whose handler's update are the in-memory add, update and delete)
Task_calls(c) ==
    \/ \E i \in FairIds : Task_call_read(c, "get_by_id", i)
    \/ \E o \in {"add", "update", "delete"}, e \in FairEntities :
          Task_call(c, RepositoryEx_steps(o, e))

NextFair ==
    \/ \E c \in FairCallers : tasks[c].pc = "idle" /\ Task_calls(c)
    \/ \E c \in FairCallers : Task_runs(c)
    \/ \E c \in FairCallers : tasks[c].pc # "idle" /\ Task_locks(c)

\* Fairness: a caller that can run does run (its thread has no await between
\* taking a guard and dropping it, and the executor polls a ready task); a
\* caller for which the guard is free again and again eventually gets it.
\* std's RwLock promises no queueing policy, so nothing keeps other callers
\* from taking the guard while one waits.  Nothing obliges a caller to make
\* a call.
FairSpec ==
    /\ InitFair
    /\ [][NextFair]_vars
    /\ \A c \in FairCallers : WF_vars(Task_runs(c))
    /\ \A c \in FairCallers : SF_vars(tasks[c].pc # "idle" /\ Task_locks(c))

\* ------------------------------- OwnershipSpec: who owns which aggregate
\* The aggregates live in memory at addresses 1..Len(heap).  The caller
\* owns the aggregates at the addresses in `held` and may assign to their
\* fields; the map owns the aggregates its entries point to.  An aggregate
\* is passed to add / update / delete by value and comes back in Ok(entity).

\* a clone that shares the original (as cloning an Rc or a reference would)
Clone_shared(h, a) == <<h, a>>

\* Clone::clone (derived for MyEntity): a new aggregate with the same field
\* values; the pair <<memory afterwards, address of the clone>>
Clone_clone(h, a) == <<Append(h, h[a]), Len(h) + 1>>

\* .cloned().collect(): clones of the aggregates at `as`, in order; the pair
\* <<memory afterwards, addresses of the clones>>
RECURSIVE Clone_all(_, _)
Clone_all(h, as) ==
    IF as = <<>> THEN <<h, <<>>>>
    ELSE LET first == Clone_clone(h, Head(as))
             rest == Clone_all(first[1], Tail(as))
         IN  <<rest[1], <<first[2]>> \o rest[2]>>

\* what get_by_id answers per identity, by value: the aggregate the entry
\* of the identity points to
StoreView(m, h) ==
    [i \in DecoratedIds |->
        IF i \in Keys(m) THEN Some(h[unwrap(HashMap_get(m, i))]) ELSE None]

InitOwnership ==
    /\ entities = InMemoryRepository_new
    /\ ret = [op |-> "new"]
    /\ written = [i \in Ids |-> None]
    /\ last_write = NoWrite
    /\ decorator = "InMemoryRepository"
    /\ pc = "idle"
    /\ frame = "none"
    /\ remaining = 0
    /\ op = "none"
    /\ given = <<>>
    /\ entity = None
    /\ domain_events = <<>>
    /\ result = None
    /\ added_entities = <<>>
    /\ trace = <<>>
    /\ InitLock
    /\ InitHeap

\* let entity = MyEntity::new(i, f);
Own_new(i, f) ==
    /\ Len(heap) < MaxObjects
    /\ heap' = Append(heap, MyEntity_new(i, f))
    /\ held' = held \cup {Len(heap) + 1}
    /\ ret' = [op |-> "MyEntity::new"]
    /\ UNCHANGED <<entities, written, last_write, callVars, lockVars>>

\* entity.my_field = f;  on an aggregate the caller owns
Own_assign(a, f) ==
    /\ a \in held
    /\ heap' = [heap EXCEPT ![a].my_field = f]
    /\ ret' = [op |-> "assign", entity |-> a]
    /\ UNCHANGED <<entities, written, last_write, callVars, lockVars, held>>

\* repository.add(entity).await / repository.update(entity).await:
\*     wo_entities.insert(entity.id().clone(), entity.clone());  Ok(entity)
Own_add(o, a) ==
    /\ a \in held
    /\ Len(heap) < MaxObjects
    /\ LET cl == Clone_clone(heap, a)
       IN  /\ heap' = cl[1]
           /\ entities' \in HashMap_insert(entities, id(heap[a]), cl[2])
    /\ ret' = [op |-> o]
    /\ UNCHANGED <<written, last_write, callVars, lockVars, held>>

\* repository.delete(entity).await: wo_entities.remove(entity.id()); the
\* aggregate passed in is dropped
Own_delete(a) ==
    /\ a \in held
    /\ entities' = HashMap_remove(entities, id(heap[a]))
    /\ held' = held \ {a}
    /\ ret' = [op |-> "delete"]
    /\ UNCHANGED <<written, last_write, callVars, lockVars, heap>>

\* repository.get_by_id(id).await: ro_entities.get(&id).cloned()
Own_get_by_id(i) ==
    /\ Len(heap) < MaxObjects
    /\ IF i \in Keys(entities)
       THEN LET cl == Clone_clone(heap, unwrap(HashMap_get(entities, i)))
            IN  /\ heap' = cl[1]
                /\ held' = held \cup {cl[2]}
                /\ ret' = [op |-> "get_by_id"]
       ELSE /\ ret' = [op |-> "get_by_id"]
            /\ UNCHANGED heapVars
    /\ UNCHANGED <<entities, written, last_write, callVars, lockVars>>

\* repository.list(skip, take).await:
\*     ro_entities.values().skip(skip).take(take).cloned().collect()
Own_list(skip, take) ==
    /\ Len(heap) + Len(Take(Skip(HashMap_values(entities), skip), take)) <= MaxObjects
    /\ LET cl == Clone_all(heap, Take(Skip(HashMap_values(entities), skip), take))
       IN  /\ heap' = cl[1]
           /\ held' = held \cup {cl[2][k] : k \in 1..Len(cl[2])}
           /\ ret' = [op |-> "list"]
    /\ UNCHANGED <<entities, written, last_write, callVars, lockVars>>

NextOwnership ==
    \/ \E i \in DecoratedIds, f \in Fields : Own_new(i, f)
    \/ \E a \in held, f \in Fields : Own_assign(a, f)
    \/ \E o \in {"add", "update"}, a \in held : Own_add(o, a)
    \/ \E a \in held : Own_delete(a)
    \/ \E i \in DecoratedIds : Own_get_by_id(i)
    \/ \E skip \in 0..1, take \in 1..MaxDecoratedId : Own_list(skip, take)

OwnershipSpec == InitOwnership /\ [][NextOwnership]_vars

\* --------------------- AggregateSpec: one aggregate and its pending events

\* the unit value (), the DomainEvent of an aggregate without a
\* domain_events field
Unit == <<>>

\* #[derive(AggregateRoot)] picks the implementation by looking for a field
\* named domain_events
has_domain_events(e) == "domain_events" \in DOMAIN e

\* the derived register_domain_event: push, or nothing when the struct has
\* no domain_events field
Derived_register_domain_event(e, ev) ==
    IF has_domain_events(e) THEN register_domain_event(e, ev) ELSE e

\* the derived drain_domain_events: drain(..).collect(), or vec![] when
\* the struct has no domain_events field
Derived_drain_domain_events(e) ==
    IF has_domain_events(e) THEN drain_domain_events(e) ELSE <<e, <<>>>>

\* the values of the aggregate's DomainEvent type
DomainEvents(e) == IF has_domain_events(e) THEN Events ELSE {Unit}

\* a newly constructed aggregate: MyEntity with a domain_events field (no
\* pending event), or MyEntity { id, my_field } without one
InitAggregate ==
    /\ entities = InMemoryRepository_new
    /\ ret = [op |-> "new"]
    /\ written = [i \in Ids |-> None]
    /\ last_write = NoWrite
    /\ decorator = "none"
    /\ pc = "idle"
    /\ frame = "none"
    /\ remaining = 0
    /\ op = "none"
    /\ given = <<>>
    /\ entity \in {MyEntity_new(1, "foo"), [id |-> 1, my_field |-> "foo"]}
    /\ domain_events = <<>>
    /\ result = None
    /\ added_entities = <<>>
    /\ trace = <<>>
    /\ InitLock
    /\ InitHeap

\* my_entity.register_domain_event(ev)
Aggregate_register(ev) ==
    /\ Len(trace) < MaxCalls
    /\ entity' = Derived_register_domain_event(entity, ev)
    /\ ret' = [op |-> "register_domain_event"]
    /\ trace' = Append(trace, [kind |-> "register", event |-> ev])
    /\ UNCHANGED <<entities, written, last_write, lockVars, heapVars, decorator,
                   pc, frame, remaining, op, given, domain_events, result,
                   added_entities>>

\* let domain_events = my_entity.drain_domain_events()
Aggregate_drain ==
    /\ Len(trace) < MaxCalls
    /\ LET out == Derived_drain_domain_events(entity)
       IN  /\ entity' = out[1]
           /\ ret' = [op |-> "drain_domain_events", value |-> out[2]]
           /\ trace' = Append(trace, [kind |-> "drain", events |-> out[2]])
    /\ UNCHANGED <<entities, written, last_write, lockVars, heapVars, decorator,
                   pc, frame, remaining, op, given, domain_events, result,
                   added_entities>>

NextAggregate ==
    \/ \E ev \in DomainEvents(entity) : Aggregate_register(ev)
    \/ Aggregate_drain

AggregateSpec == InitAggregate /\ [][NextAggregate]_vars

\* ------------------------------ EntitySpec: equality of a derived Entity

\* a derived PartialEq that compares every field
Entity_eq_fields(a, b) == a = b

\* impl PartialEq for a derived Entity: self.id() == other.id()
Entity_eq(a, b) == id(a) = id(b)

\* PartialEq::ne, the provided method: !self.eq(other)
Entity_ne(a, b) == ~Entity_eq(a, b)

\* let a = MyEntity::new(..); let b = MyEntity::new(..);
InitEntity ==
    /\ entities = InMemoryRepository_new
    /\ ret = [op |-> "new"]
    /\ written = [i \in Ids |-> None]
    /\ last_write = NoWrite
    /\ decorator = "none"
    /\ pc = "idle"
    /\ frame = "none"
    /\ remaining = 0
    /\ op = "none"
    /\ given \in {<<a, b>> : a \in PlainEntities, b \in PlainEntities}
    /\ entity = None
    /\ domain_events = <<>>
    /\ result = None
    /\ added_entities = <<>>
    /\ trace = <<>>
    /\ InitLock
    /\ InitHeap

\* a == b
Entity_compare_eq ==
    /\ ret' = [op |-> "eq", value |-> Entity_eq(given[1], given[2])]
    /\ UNCHANGED <<entities, written, last_write, callVars, lockVars, heapVars>>

\* a != b
Entity_compare_ne ==
    /\ ret' = [op |-> "ne", value |-> Entity_ne(given[1], given[2])]
    /\ UNCHANGED <<entities, written, last_write, callVars, lockVars, heapVars>>

\* a.my_field = f, or b.my_field = f
Entity_assign(k, f) ==
    /\ given' = [given EXCEPT ![k].my_field = f]
    /\ ret' = [op |-> "assign"]
    /\ UNCHANGED <<entities, written, last_write, lockVars, heapVars, decorator,
                   pc, frame, remaining, op, entity, domain_events, result,
                   added_entities, trace>>

NextEntity ==
    \/ Entity_compare_eq
    \/ Entity_compare_ne
    \/ \E k \in 1..2, f \in Fields : Entity_assign(k, f)

EntitySpec == InitEntity /\ [][NextEntity]_vars

\* --------------------- ValueSpec: comparison of a derived struct ValueObject

\* MyNamedValueObject { #[eq_component] x, y, #[eq_component] z }: the
\* fields in declaration order, and those tagged as equality components
ValueFields == <<"x", "y", "z">>

EqComponents_reversed == <<"z", "x">>

EqComponents == <<"x", "z">>

\* values of the component x, of a partially ordered type (f64: NaN is
\* incomparable with everything, itself included)
Floats == {"0.0", "1.0", "NaN"}

\* position of a component value in the order of its type
Rank(v) == CASE v \in {"0.0", "bar"} -> 0
             [] v \in {"1.0", "foo"} -> 1

\* PartialOrd::partial_cmp of a component's type
Component_partial_cmp(u, v) ==
    IF u = "NaN" \/ v = "NaN" THEN None
    ELSE IF Rank(u) < Rank(v) THEN Some("Less")
    ELSE IF Rank(u) > Rank(v) THEN Some("Greater")
    ELSE Some("Equal")

\* every MyNamedValueObject
ValueObjects ==
    [x : Floats, y : {None, Some(42), Some(-1)}, z : Fields]

\* the derived Clone: every field cloned
ValueObject_clone(v) ==
    [f \in {ValueFields[i] : i \in 1..Len(ValueFields)} |-> v[f]]

\* the derived PartialOrd::partial_cmp, from the component cs[k] on:
\*     match self.f.partial_cmp(&other.f) {
\*         Some(Equal) => {}, ord => return ord }   (for each component f)
\*     Some(Equal)
RECURSIVE partial_cmp_from(_, _, _, _)
partial_cmp_from(cs, k, a, b) ==
    IF k > Len(cs) THEN Some("Equal")
    ELSE LET ord == Component_partial_cmp(a[cs[k]], b[cs[k]])
         IN  IF ord = Some("Equal") THEN partial_cmp_from(cs, k + 1, a, b)
             ELSE ord

\* a partial_cmp that goes on to the field y when the components are equal
ValueObject_partial_cmp_all(a, b) ==
    LET ord == partial_cmp_from(EqComponents, 1, a, b)
    IN  IF ord = Some("Equal") /\ a.y # b.y THEN Some("Less") ELSE ord

ValueObject_partial_cmp(a, b) == partial_cmp_from(EqComponents, 1, a, b)

\* the derived PartialEq::eq
ValueObject_eq(a, b) == ValueObject_partial_cmp(a, b) = Some("Equal")

\* let a = MyNamedValueObject { .. }; let b = MyNamedValueObject { .. };
InitValue ==
    /\ entities = InMemoryRepository_new
    /\ ret = [op |-> "new"]
    /\ written = [i \in Ids |-> None]
    /\ last_write = NoWrite
    /\ decorator = "none"
    /\ pc = "idle"
    /\ frame = "none"
    /\ remaining = 0
    /\ op = "none"
    /\ given \in ValueObjects \X ValueObjects
    /\ entity = None
    /\ domain_events = <<>>
    /\ result = None
    /\ added_entities = <<>>
    /\ trace = <<>>
    /\ InitLock
    /\ InitHeap

\* a == b
Value_eq ==
    /\ ret' = [op |-> "eq", value |-> ValueObject_eq(given[1], given[2])]
    /\ UNCHANGED <<entities, written, last_write, callVars, lockVars, heapVars>>

\* a.partial_cmp(&b)
Value_partial_cmp ==
    /\ ret' = [op |-> "partial_cmp",
               value |-> ValueObject_partial_cmp(given[1], given[2])]
    /\ UNCHANGED <<entities, written, last_write, callVars, lockVars, heapVars>>

\* let b = a.clone()
Value_clone ==
    /\ given' = <<given[1], ValueObject_clone(given[1])>>
    /\ ret' = [op |-> "clone"]
    /\ UNCHANGED <<entities, written, last_write, lockVars, heapVars, decorator,
                   pc, frame, remaining, op, entity, domain_events, result,
                   added_entities, trace>>

\* a.y = v, or b.y = v: an assignment to the field that is no component
Value_assign(k, v) ==
    /\ given' = [given EXCEPT ![k].y = v]
    /\ ret' = [op |-> "assign"]
    /\ UNCHANGED <<entities, written, last_write, lockVars, heapVars, decorator,
                   pc, frame, remaining, op, entity, domain_events, result,
                   added_entities, trace>>

NextValue ==
    \/ Value_eq
    \/ Value_partial_cmp
    \/ Value_clone
    \/ \E k \in 1..2, v \in {None, Some(42), Some(-1)} : Value_assign(k, v)

ValueSpec == InitValue /\ [][NextValue]_vars

\* ------------------------- EnumSpec: ValueObject derived on a unit-only enum
\* #[derive(ValueObject)] on an enum whose variants are all unit variants.
\* A variant is named by its position in the declaration.  A program holds
\* three values of the enum, compares them and clones them.

Variants == 1..MaxVariants

\* the arms of an ascending order: the earlier variant is Less
Arms_ascending ==
    [k \in 1..(3 * MaxVariants) |->
        LET v == (k + 2) \div 3
        IN  CASE k % 3 = 1 -> [self |-> {v}, other |-> {v}, ord |-> "Equal"]
              [] k % 3 = 2 -> [self |-> {v}, other |-> Variants, ord |-> "Less"]
              [] k % 3 = 0 -> [self |-> Variants, other |-> {v}, ord |-> "Greater"]]

\* the arms of the generated `match (self, other)`, three per variant, in
\* the order of declaration; a pattern is the set of variants it matches
\* (`_` matches all):
\*     (Self::V, Self::V) => Some(Equal),
\*     (Self::V, _) => Some(Greater),
\*     (_, Self::V) => Some(Less),
Arms ==
    [k \in 1..(3 * MaxVariants) |->
        LET v == (k + 2) \div 3
        IN  CASE k % 3 = 1 -> [self |-> {v}, other |-> {v}, ord |-> "Equal"]
              [] k % 3 = 2 -> [self |-> {v}, other |-> Variants, ord |-> "Greater"]
              [] k % 3 = 0 -> [self |-> Variants, other |-> {v}, ord |-> "Less"]]

\* match: the value of the first arm, from arm k on, whose pattern matches
RECURSIVE match_from(_, _, _)
match_from(k, a, b) ==
    IF k > Len(Arms) THEN None
    ELSE IF a \in Arms[k].self /\ b \in Arms[k].other THEN Some(Arms[k].ord)
    ELSE match_from(k + 1, a, b)

\* the derived PartialOrd::partial_cmp
Enum_partial_cmp(a, b) == match_from(1, a, b)

\* the derived PartialEq::eq:
\*     matches!(self.partial_cmp(other), Some(Ordering::Equal))
Enum_eq(a, b) == Enum_partial_cmp(a, b) = Some("Equal")

\* the derived Clone: match self { Self::V => Self::V, .. }
Enum_clone(a) == CHOOSE v \in Variants : v = a

InitEnum ==
    /\ entities = InMemoryRepository_new
    /\ ret = [op |-> "new"]
    /\ written = [i \in Ids |-> None]
    /\ last_write = NoWrite
    /\ decorator = "none"
    /\ pc = "idle"
    /\ frame = "none"
    /\ remaining = 0
    /\ op = "none"
    /\ given \in Variants \X Variants \X Variants
    /\ entity = None
    /\ domain_events = <<>>
    /\ result = None
    /\ added_entities = <<>>
    /\ trace = <<>>
    /\ InitLock
    /\ InitHeap

\* given[i] == given[j]
Enum_compare_eq(i, j) ==
    /\ ret' = [op |-> "eq", a |-> given[i], b |-> given[j],
               value |-> Enum_eq(given[i], given[j])]
    /\ UNCHANGED <<entities, written, last_write, callVars, lockVars, heapVars>>

\* given[i].partial_cmp(&given[j])
Enum_compare(i, j) ==
    /\ ret' = [op |-> "partial_cmp", a |-> given[i], b |-> given[j],
               value |-> Enum_partial_cmp(given[i], given[j])]
    /\ UNCHANGED <<entities, written, last_write, callVars, lockVars, heapVars>>

\* given[j] = given[i].clone()
Enum_assign_clone(i, j) ==
    /\ given' = [given EXCEPT ![j] = Enum_clone(given[i])]
    /\ ret' = [op |-> "clone", a |-> given[i], b |-> Enum_clone(given[i])]
    /\ UNCHANGED <<entities, written, last_write, lockVars, heapVars, decorator,
                   pc, frame, remaining, op, entity, domain_events, result,
                   added_entities, trace>>

NextEnum ==
    \/ \E i \in 1..3, j \in 1..3 : Enum_compare_eq(i, j)
    \/ \E i \in 1..3, j \in 1..3 : Enum_compare(i, j)
    \/ \E i \in 1..3, j \in 1..3 : Enum_assign_clone(i, j)

EnumSpec == InitEnum /\ [][NextEnum]_vars

\* ============================================================== properties

\* the identities with an entry written (add / update) and not deleted since
Live == {i \in Ids : is_some(written[i])}

Min(a, b) == IF a < b THEN a ELSE b

Max(a, b) == IF a < b THEN b ELSE a

\* the elements of a sequence
Range(s) == {s[i] : i \in 1..Len(s)}

\* ---- C4 (under Spec) ----
\* Round trip: in every store state, right after add(x) returned,
\* get_by_id(x.id()) yields Some(x), the same identity and the same value in
\* every field; and a get_by_id call that follows add(x) with no write to
\* that identity in between (reads and writes to other identities may
\* intervene) returned Ok(Some(x)).
C4_AddThenGetById ==
    /\ ret.op = "add" =>
          /\ ret.result = Ok(ret.entity)
          /\ InMemory_get_by_id(entities, id(ret.entity)) = Ok(Some(ret.entity))
    /\ (ret.op = "get_by_id" /\ last_write.op = "add"
            /\ id(last_write.entity) = ret.id) =>
          ret.result = Ok(Some(last_write.entity))
    /\ ret.op = "get_by_id" => ret.result = Ok(written[ret.id])

\* get_by_id(x.id()) returned Some(x) after add(x) overwrote a different
\* entry of that identity, in a store that holds other entries too
C4_Witness ==
    /\ ret.op = "get_by_id"
    /\ last_write.op = "add"
    /\ id(last_write.entity) = ret.id
    /\ ret.result = Ok(Some(last_write.entity))
    /\ HashMap_len(entities) > 1

\* ---- C5 (under Spec) ----
\* update(x') issued after add(x) with the same identity (no other write in
\* between) returns Ok(x'), leaves the number of entries as it was, and
\* afterwards get_by_id yields exactly x': nothing of x survives.
C5_UpdateReplaces ==
    [][(ret'.op = "update" /\ last_write.op = "add"
            /\ id(last_write.entity) = id(ret'.entity)) =>
          /\ ret'.result = Ok(ret'.entity)
          /\ InMemory_get_by_id(entities', id(ret'.entity)) = Ok(Some(ret'.entity))
          /\ InMemory_count(entities') = InMemory_count(entities)
          /\ \A en \in Range(entities') :
                en.key = id(ret'.entity) => en.value = ret'.entity]_vars

\* update(x') returned after add(x) with the same identity and another
\* value of the non-key field
C5_Witness ==
    /\ ret.op = "update"
    /\ ret.prior.op = "add"
    /\ id(ret.prior.entity) = id(ret.entity)
    /\ ret.prior.entity.my_field # ret.entity.my_field
    /\ ret.before = Some(ret.prior.entity)
    /\ ret.result = Ok(ret.entity)
    /\ HashMap_get(entities, id(ret.entity)) = Some(ret.entity)

\* ---- C6 (under Spec) ----
\* delete(x) always returns Ok(()); afterwards exists(x.id()) is false; an
\* entry stored under x.id() is removed and the other entries are left as
\* they were; with no entry under x.id() the store is unchanged.
C6_DeleteAlwaysSucceeds ==
    [][ret'.op = "delete" =>
          /\ ret'.result = Ok(<<>>)
          /\ InMemory_exists(entities', id(ret'.entity)) = Ok(FALSE)
          /\ IF id(ret'.entity) \in Keys(entities)
             THEN /\ Keys(entities') = Keys(entities) \ {id(ret'.entity)}
                  /\ HashMap_len(entities') = HashMap_len(entities) - 1
                  /\ \A k \in Keys(entities') :
                        HashMap_get(entities', k) = HashMap_get(entities, k)
             ELSE entities' = entities]_vars

\* delete(x) returned Ok for an identity with no entry, in a store that is
\* not empty
C6_Witness ==
    /\ ret.op = "delete"
    /\ ret.before = None
    /\ ret.result = Ok(<<>>)
    /\ HashMap_len(entities) > 0

\* ---- C7 (under Spec) ----
\* After any sequence of add, update and delete calls the store holds at
\* most one entry per identity, and count() is the number of identities that
\* were added or updated and not deleted since.
C7_OneEntryPerIdentity ==
    /\ \A i, j \in 1..Len(entities) : entities[i].key = entities[j].key => i = j
    /\ InMemory_count(entities) = Ok(Cardinality(Live))
    /\ Keys(entities) = Live
    /\ ret.op = "count" => ret.result = Ok(Cardinality(Live))

\* count() returned 2 after an identity was overwritten and another deleted
C7_Witness ==
    /\ ret.op = "count"
    /\ ret.result = Ok(2)
    /\ last_write.op = "delete"
    /\ Cardinality(Live) = 2

\* ---- C8 (under Spec) ----
\* add and update are the same operation: in every store state and for
\* every aggregate x they have the same possible outcomes, and either call
\* returns Ok(x), leaves x as the entry of x.id() (inserted when there was
\* none, replaced when there was one) and leaves the other entries as they
\* were; neither returns an error.
C8_AddUpdateSame ==
    [][/\ \A x \in PlainEntities :
             InMemory_update(entities, x) = InMemory_add(entities, x)
       /\ ret'.op \in {"add", "update"} =>
             /\ ret'.result = Ok(ret'.entity)
             /\ HashMap_get(entities', id(ret'.entity)) = Some(ret'.entity)
             /\ Keys(entities') = Keys(entities) \cup {id(ret'.entity)}
             /\ HashMap_len(entities') = Cardinality(Keys(entities'))
             /\ \A k \in Keys(entities) \ {id(ret'.entity)} :
                   HashMap_get(entities', k) = HashMap_get(entities, k)]_vars

\* update(x) returned Ok(x) for an identity that had no entry
C8_Witness ==
    /\ ret.op = "update"
    /\ ret.before = None
    /\ ret.result = Ok(ret.entity)
    /\ HashMap_get(entities, id(ret.entity)) = Some(ret.entity)

\* ---- C9 (under Spec) ----
\* list(skip, take) returns the elements at positions skip+1 .. skip+n of
\* the enumeration of the stored aggregates, n = min(take, max(0, count -
\* skip)); every stored identity appears exactly once in that enumeration;
\* and on an unchanged store the pages list(0, k) and list(k, take) have no
\* aggregate in common.
C9_ListPages ==
    LET all == HashMap_values(entities)
        n   == HashMap_len(entities)
    IN  /\ \A i, j \in 1..Len(all) : id(all[i]) = id(all[j]) => i = j
        /\ {id(e) : e \in Range(all)} = Live
        /\ ret.op = "list" =>
              LET len == Min(ret.take, Max(0, n - ret.skip))
              IN  /\ ret.result.ok
                  /\ Len(ret.result.value) = len
                  /\ \A j \in 1..len : ret.result.value[j] = all[ret.skip + j]
        /\ \A k \in 0..MaxId, take \in 0..MaxId :
              Range(InMemory_list(entities, 0, k).value)
                 \cap Range(InMemory_list(entities, k, take).value) = {}

\* over 3 stored aggregates list(1, 1) returned exactly one aggregate, which
\* is not the one list(0, 1) returns
C9_Witness ==
    /\ HashMap_len(entities) = 3
    /\ ret.op = "list"
    /\ ret.skip = 1
    /\ ret.take = 1
    /\ Len(ret.result.value) = 1
    /\ ret.result.value[1] # InMemory_list(entities, 0, 1).value[1]

\* the handler invocations of a trace, and the events they were given
HandleEntries(tr) == SelectSeq(tr, LAMBDA t : t.kind = "handle")

EventsOf(tr) == [k \in 1..Len(HandleEntries(tr)) |-> HandleEntries(tr)[k].event]

\* the decorator's calls of the wrapped repository in a trace
RepositoryEntries(tr) == SelectSeq(tr, LAMBDA t : t.kind = "repository")

\* the aggregate a successful singular decorator call on x returns: the
\* drained x (DomainRepository), or what the last handler returned, the
\* drained x with the last event applied (RepositoryEx)
Returned(d, x) ==
    IF d = "DomainRepository" \/ x.domain_events = <<>>
    THEN drain_domain_events(x)[1]
    ELSE [drain_domain_events(x)[1] EXCEPT
             !.my_field = x.domain_events[Len(x.domain_events)]]

C2_HandlerFailureStopsDelivery ==
    (pc = "done" /\ ret.op = "add") =>
        \A j \in 1..Len(ret.trace) :
            (ret.trace[j].kind = "handle" /\ ~ret.trace[j].result.ok) =>
                LET x == ret.given[1]
                    k == Len(HandleEntries(ret.trace))
                IN  /\ j = Len(ret.trace)
                    /\ EventsOf(ret.trace) = SubSeq(x.domain_events, 1, k)
                    /\ \A h \in 1..(k - 1) : HandleEntries(ret.trace)[h].result.ok
                    /\ ret.result = ret.trace[j].result
                    /\ HashMap_get(entities, id(x)) =
                          Some(IF decorator = "DomainRepository"
                               THEN drain_domain_events(x)[1]
                               ELSE IF k = 1 THEN x
                               ELSE [drain_domain_events(x)[1] EXCEPT
                                        !.my_field = x.domain_events[k - 1]])

\* add of an aggregate with two pending events: the handler failed on the
\* first, the second was never delivered, the aggregate is stored
C2_Witness ==
    /\ pc = "done"
    /\ ret.op = "add"
    /\ Len(ret.given[1].domain_events) = 2
    /\ ~ret.result.ok
    /\ Len(HandleEntries(ret.trace)) = 1
    /\ ret.trace[Len(ret.trace)].kind = "handle"
    /\ ret.result = ret.trace[Len(ret.trace)].result
    /\ is_some(HashMap_get(entities, id(ret.given[1])))

C10_RangeStopsAtFirstFailure ==
    pc = "done" =>
        LET n == Len(ret.given)
            k == n - ret.remaining
            o == Singular(ret.op)
            tr == ret.trace
        IN  /\ {tr[j].elem : j \in 1..Len(tr)} = 1..k
            /\ \A j \in 1..(Len(tr) - 1) : tr[j].elem <= tr[j + 1].elem
            /\ \A i \in 1..k :
                  Len(SelectSeq(RepositoryEntries(tr), LAMBDA t : t.elem = i)) <= 1
            /\ \A j \in 1..Len(tr) :
                  tr[j].kind = "repository" => tr[j].op = o
            /\ \A j \in 1..(Len(tr) - 1) : tr[j].result.ok
            /\ IF ret.result.ok
               THEN /\ k = n
                    /\ \A j \in 1..Len(tr) : tr[j].result.ok
                    /\ ret.result.value =
                          IF o = "delete" THEN <<>>
                          ELSE [i \in 1..n |-> Returned(decorator, ret.given[i])]
               ELSE /\ k >= 1
                    /\ tr[Len(tr)].elem = k
                    /\ ret.result = tr[Len(tr)].result
            /\ \A i \in 1..(IF ret.result.ok THEN k ELSE k - 1) :
                  (\A i2 \in (i + 1)..k : id(ret.given[i2]) # id(ret.given[i])) =>
                      HashMap_get(entities, id(ret.given[i])) =
                          IF o = "delete" THEN None
                          ELSE Some(Returned(decorator, ret.given[i]))

\* add_range of two aggregates with different identities to a new
\* repository failed on the second one: the error is returned, the first
\* aggregate stays stored
C10_Witness ==
    /\ pc = "done"
    /\ ret.op = "add_range"
    /\ Len(ret.given) = 2
    /\ id(ret.given[1]) # id(ret.given[2])
    /\ ~ret.result.ok
    /\ ret.remaining = 0
    /\ ret.trace[Len(ret.trace)].elem = 2
    /\ HashMap_get(entities, id(ret.given[1])) =
          Some(Returned(decorator, ret.given[1]))
    /\ HashMap_len(entities) = 1

\* ---- C11 (under ReadSpec) ----
\* In every store state and for every identity, exists(id) answers true
\* exactly when get_by_id(id) answers Some, and is_empty() answers true
\* exactly when count() answers 0, on the in-memory repository and through
\* either decorator; and a read through a decorator returns what the wrapped
\* repository holds: get_by_id the stored entry of the identity, list the
\* page of the wrapped list, count the number of entries, exists whether
\* the identity is a key, is_empty whether there is no entry.
C11_ExistsIsEmptyDerived ==
    /\ \A i \in Ids :
          /\ InMemory_exists(entities, i) =
                Ok(is_some(InMemory_get_by_id(entities, i).value))
          /\ Decorated_exists(entities, i) =
                Ok(is_some(Decorated_get_by_id(entities, i).value))
          /\ Decorated_get_by_id(entities, i) = InMemory_get_by_id(entities, i)
          /\ Decorated_exists(entities, i) = Ok(i \in Keys(entities))
    /\ InMemory_is_empty(entities) = Ok(InMemory_count(entities) = Ok(0))
    /\ Decorated_is_empty(entities) = Ok(Decorated_count(entities) = Ok(0))
    /\ Decorated_count(entities) = InMemory_count(entities)
    /\ pc = "returned" =>
          ret.result =
             CASE ret.op = "get_by_id" -> InMemory_get_by_id(entities, ret.id)
               [] ret.op = "list" -> InMemory_list(entities, ret.skip, ret.take)
               [] ret.op = "count" -> InMemory_count(entities)
               [] ret.op = "exists" -> Ok(ret.id \in Keys(entities))
               [] ret.op = "is_empty" -> Ok(entities = <<>>)

\* exists through RepositoryEx answered false for an identity that is not
\* stored while another one is, so that is_empty is false
C11_Witness ==
    /\ decorator = "RepositoryEx"
    /\ pc = "returned"
    /\ ret.op = "exists"
    /\ ret.result = Ok(FALSE)
    /\ Decorated_get_by_id(entities, ret.id) = Ok(None)
    /\ Decorated_is_empty(entities) = Ok(FALSE)
    /\ Decorated_count(entities) = Ok(1)

\* ---- C12 (under MemRangeSpec) ----
\* Whatever the store holds and whatever the arguments, every call of
\* get_by_id, list, count, exists, is_empty, add, update and delete on the
\* in-memory repository returns Ok; so a batch on it never stops early:
\* add_range / update_range return Ok with one result per element, the
\* elements themselves in input order, delete_range returns Ok(()), and
\* afterwards the store holds, per identity of the vector, the last element
\* of that identity (add_range / update_range) or nothing (delete_range).
C12_InMemoryNeverFails ==
    /\ ret.op # "new" => ret.result.ok
    /\ \A i \in Ids : InMemory_get_by_id(entities, i).ok /\ InMemory_exists(entities, i).ok
    /\ InMemory_count(entities).ok /\ InMemory_is_empty(entities).ok
    /\ ret.op \in {"add_range", "update_range"} =>
          /\ ret.result = Ok(ret.given)
          /\ \A k \in 1..Len(ret.given) :
                is_some(HashMap_get(entities, id(ret.given[k])))
    /\ ret.op = "delete_range" =>
          /\ ret.result = Ok(<<>>)
          /\ \A k \in 1..Len(ret.given) :
                HashMap_get(entities, id(ret.given[k])) = None
    /\ ret.op \in {"add_range", "update_range", "delete_range"} =>
          \A i \in Ids : HashMap_get(entities, i) = written[i]

\* add_range of two aggregates of one identity that was already stored
\* returned both of them; the second is what the store holds
C12_Witness ==
    /\ ret.op = "add_range"
    /\ Len(ret.given) = 2
    /\ id(ret.given[1]) = id(ret.given[2])
    /\ ret.given[1] # ret.given[2]
    /\ ret.result = Ok(ret.given)
    /\ HashMap_get(entities, id(ret.given[2])) = Some(ret.given[2])
    /\ HashMap_len(entities) = MaxId

\* the callers that hold a guard and are at work on the map
ReadersInside == {c \in Callers : tasks[c].pc \in {"read", "got"}}

WritersInside == {c \in Callers : tasks[c].pc \in {"write", "partly"}}

\* ---- C13 (under LockSpec) ----
\* With concurrent callers of one in-memory repository: whenever a write
\* (add, update, delete) is inside the map, it is the only operation inside,
\* no other writer and no reader; any number of reads (get_by_id, list,
\* count) may be inside together; the guards held are exactly those of the
\* operations inside; and no read ever ran while the map was partly
\* modified.
C13_WritersExclude ==
    /\ Cardinality(WritersInside) <= 1
    /\ WritersInside # {} => ReadersInside = {}
    /\ rwlock.readers = ReadersInside
    /\ rwlock.writer = None <=> WritersInside = {}
    /\ rwlock.writer # None => unwrap(rwlock.writer) \in WritersInside
    /\ \A c \in Callers : ~tasks[c].partial

\* every caller is inside a read of a map that holds an entry, at the same time
C13_Witness ==
    /\ ReadersInside = Callers
    /\ \E c \in Callers : tasks[c].op = "get_by_id"
    /\ \E c \in Callers : tasks[c].op = "count"
    /\ entities # <<>>

\* the addresses the entries of the map point to
StoreAddresses == {entities[k].value : k \in 1..Len(entities)}

\* ---- C14 (under OwnershipSpec) ----
\* The caller and the store never share an aggregate: no entry of the map
\* points to an aggregate the caller owns, and no two entries point to the
\* same aggregate.  So an assignment to a field of an aggregate the caller
\* owns (one it constructed, got back from add / update, or got from
\* get_by_id / list) changes nothing of what get_by_id answers for any
\* identity, and a write to the store (add, update, delete) changes no
\* aggregate the caller still owns.
C14_NoSharedState ==
    /\ [](StoreAddresses \cap held = {}
          /\ Cardinality(StoreAddresses) = Len(entities))
    /\ [][/\ ret'.op = "assign" =>
                StoreView(entities', heap') = StoreView(entities, heap)
          /\ ret'.op \in {"add", "update", "delete", "get_by_id", "list"} =>
                \A a \in held : heap'[a] = heap[a]]_vars

\* the caller assigned to the field of an aggregate it got from get_by_id:
\* it now differs from the stored aggregate of its identity
C14_Witness ==
    /\ ret.op = "assign"
    /\ ret.entity \in held
    /\ id(heap[ret.entity]) \in Keys(entities)
    /\ ret.entity > 2
    /\ StoreView(entities, heap)[id(heap[ret.entity])] # Some(heap[ret.entity])

\* ---- C15 (under DecoratedSpec) ----
\* RepositoryEx.add of an aggregate x with pending events e1..en (n >= 1),
\* with the handler of the RepositoryEx doctest (apply the event to the
\* aggregate, persist it with the wrapped repository's update): when add
\* returns Ok, the wrapped add was followed by n successful handler
\* invocations, and get_by_id(x.id) answers the aggregate with every event
\* applied in order (its field holds en) and an empty pending-event buffer,
\* which is also the aggregate add returned.
C15_AddAppliesEvents ==
    (/\ decorator = "RepositoryEx"
     /\ pc = "done"
     /\ ret.op = "add"
     /\ ret.result.ok
     /\ ret.given[1].domain_events # <<>>) =>
        LET x == ret.given[1]
            got == InMemory_get_by_id(entities, id(x))
        IN  /\ EventsOf(ret.trace) = x.domain_events
            /\ got.ok
            /\ is_some(got.value)
            /\ unwrap(got.value).my_field = x.domain_events[Len(x.domain_events)]
            /\ unwrap(got.value).domain_events = <<>>
            /\ unwrap(got.value) = Returned("RepositoryEx", x)
            /\ ret.result.value = unwrap(got.value)

\* RepositoryEx.add of an aggregate with two different pending events
\* succeeded; get_by_id answers it with the second event's effect and no
\* pending event
C15_Witness ==
    /\ decorator = "RepositoryEx"
    /\ pc = "done"
    /\ ret.op = "add"
    /\ ret.result.ok
    /\ Len(ret.given[1].domain_events) = 2
    /\ ret.given[1].domain_events[1] # ret.given[1].domain_events[2]
    /\ ret.given[1].my_field # ret.given[1].domain_events[2]
    /\ InMemory_get_by_id(entities, id(ret.given[1])) =
          Ok(Some([ret.given[1] EXCEPT !.my_field = ret.given[1].domain_events[2],
                                       !.domain_events = <<>>]))

\* the index of the last drain among the first k - 1 calls, 0 if none
LastDrainBefore(tr, k) ==
    LET ds == {j \in 1..(k - 1) : tr[j].kind = "drain"}
    IN  IF ds = {} THEN 0 ELSE CHOOSE j \in ds : \A i \in ds : i <= j

\* the events registered by the calls j + 1 .. k - 1, in call order
RegisteredBetween(tr, j, k) ==
    LET rs == SelectSeq(SubSeq(tr, j + 1, k - 1), LAMBDA t : t.kind = "register")
    IN  [i \in 1..Len(rs) |-> rs[i].event]

\* ---- C16 (under AggregateSpec) ----
\* After any sequence of register_domain_event / drain_domain_events calls
\* on an aggregate (derived with or without a domain_events field), a drain
\* leaves no pending event, and a drain that directly follows a drain
\* returns the empty sequence, whatever the first of the two returned.
C16_SecondDrainEmpty ==
    /\ (ret.op = "drain_domain_events" /\ has_domain_events(entity)) =>
          entity.domain_events = <<>>
    /\ \A k \in 1..(Len(trace) - 1) :
          (trace[k].kind = "drain" /\ trace[k + 1].kind = "drain") =>
              trace[k + 1].events = <<>>

\* a drain returned two events and the drain right after it returned none
C16_Witness ==
    /\ Len(trace) >= 4
    /\ trace[Len(trace)].kind = "drain"
    /\ trace[Len(trace) - 1].kind = "drain"
    /\ Len(trace[Len(trace) - 1].events) = 2
    /\ trace[Len(trace)].events = <<>>
    /\ ret = [op |-> "drain_domain_events", value |-> <<>>]

\* ---- C17 (under AggregateSpec) ----
\* As stated: on any aggregate and for any interleaving of register and
\* drain calls, each drain returns exactly the events registered since the
\* previous drain (or since construction), in registration order.
C17_DrainReturnsRegistered ==
    \A k \in 1..Len(trace) :
        trace[k].kind = "drain" =>
            trace[k].events =
                RegisteredBetween(trace, LastDrainBefore(trace, k), k)

\* C17. Amended: on an aggregate derived from a struct with a domain_events
\* field, each drain returns exactly the events registered since the
\* previous drain (or since construction), each once, in registration
\* order, and the events registered since the last drain are the pending
\* buffer; so no event is lost, duplicated or returned by two drains.  On an
\* aggregate derived from a struct without that field (DomainEvent = ()),
\* register_domain_event does nothing and every drain returns the empty
\* sequence.
C17_DrainReturnsRegisteredIfBuffered ==
    IF has_domain_events(entity)
    THEN /\ \A k \in 1..Len(trace) :
               trace[k].kind = "drain" =>
                   trace[k].events =
                       RegisteredBetween(trace, LastDrainBefore(trace, k), k)
         /\ entity.domain_events =
               RegisteredBetween(trace,
                                 LastDrainBefore(trace, Len(trace) + 1),
                                 Len(trace) + 1)
    ELSE /\ entity = [id |-> 1, my_field |-> "foo"]
         /\ \A k \in 1..Len(trace) :
               trace[k].kind = "drain" => trace[k].events = <<>>

\* register e1, register e2, drain, register e3, drain: the first drain
\* returned <<e1, e2>> and the second <<e3>>
C17_Witness ==
    /\ Len(trace) = 5
    /\ has_domain_events(entity)
    /\ trace[1].kind = "register" /\ trace[2].kind = "register"
    /\ trace[1].event # trace[2].event
    /\ trace[3] = [kind |-> "drain", events |-> <<trace[1].event, trace[2].event>>]
    /\ trace[4].kind = "register"
    /\ trace[5] = [kind |-> "drain", events |-> <<trace[4].event>>]
    /\ entity.domain_events = <<>>

\* ---- C18 (under EntitySpec) ----
\* For entities a and b of a derived Entity type, whatever was assigned to
\* their other fields: a == b answers true exactly when the two identities
\* are equal, and a != b answers true exactly when they differ.
C18_EqualIffSameId ==
    /\ ret.op = "eq" => (ret.value <=> given[1].id = given[2].id)
    /\ ret.op = "ne" => (ret.value <=> given[1].id # given[2].id)

\* a == b answered true for two entities with the same identity and
\* different values of the other field
C18_Witness ==
    /\ ret = [op |-> "eq", value |-> TRUE]
    /\ given[1].id = given[2].id
    /\ given[1].my_field # given[2].my_field

\* ---- C19 (under ValueSpec) ----
\* For values a and b of a derived struct value object, a == b answers true
\* exactly when every equality component of a compares Equal to the same
\* component of b (x with x, z with z), whatever the field y holds; and an
\* assignment to y, in a value, in its clone or in any other value, never
\* changes what a == b answers.
C19_EqualityByComponents ==
    /\ [](ret.op = "eq" =>
            (ret.value <=>
                /\ Component_partial_cmp(given[1].x, given[2].x) = Some("Equal")
                /\ Component_partial_cmp(given[1].z, given[2].z) = Some("Equal")))
    /\ [][ret'.op = "assign" =>
            ValueObject_eq(given'[1], given'[2]) =
                ValueObject_eq(given[1], given[2])]_vars

\* a == b answered true for two values with equal components and
\* different y
C19_Witness ==
    /\ ret.op = "eq"
    /\ ret.value
    /\ given[1].x = given[2].x
    /\ given[1].z = given[2].z
    /\ given[1].y # given[2].y

\* ---- C20 (under ValueSpec) ----
\* a.partial_cmp(b) on a derived struct value object is what the first
\* equality component, in declaration order (x, then z), that does not
\* compare Equal answers: Less, Greater, or None when that component is
\* incomparable; it is Some(Equal) when every component compares Equal.
\* The result is the same whatever y holds in either value, and it is
\* Some(Equal) exactly when a == b.
C20_LexicographicOrder ==
    ret.op = "partial_cmp" =>
        LET a == given[1]
            b == given[2]
            cx == Component_partial_cmp(a.x, b.x)
            cz == Component_partial_cmp(a.z, b.z)
        IN  /\ ret.value = IF cx # Some("Equal") THEN cx
                           ELSE IF cz # Some("Equal") THEN cz
                           ELSE Some("Equal")
            /\ \A v \in ValueObjects, w \in ValueObjects :
                  (v.x = a.x /\ v.z = a.z /\ w.x = b.x /\ w.z = b.z) =>
                      ValueObject_partial_cmp(v, w) = ret.value
            /\ (ret.value = Some("Equal")) <=> ValueObject_eq(a, b)

\* x is less in a than in b and z is greater, y differs: partial_cmp
\* answered Less, as x does
C20_Witness ==
    /\ ret.op = "partial_cmp"
    /\ ret.value = Some("Less")
    /\ Component_partial_cmp(given[1].x, given[2].x) = Some("Less")
    /\ Component_partial_cmp(given[1].z, given[2].z) = Some("Greater")
    /\ given[1].y # given[2].y

\* ---- C21 (under DecoratedSpec) ----
\* As stated: for add, update and delete on either decorator, every
\* aggregate the decorator hands to the wrapped repository has an empty
\* pending-event buffer (the events were drained before that call), and a
\* call that returns Ok has handled exactly the events that were pending
\* when it was made, in order.
C21_DrainedBeforeRepository ==
    (pc = "done" /\ ret.op \in {"add", "update", "delete"}) =>
        /\ \A j \in 1..Len(ret.trace) :
              ret.trace[j].kind = "repository" =>
                  ret.trace[j].entity.domain_events = <<>>
        /\ ret.result.ok => EventsOf(ret.trace) = ret.given[1].domain_events

\* the callers that hold a guard of the map lock
Holders == rwlock.readers \cup {c \in Callers : rwlock.writer = Some(c)}

\* ---- C22 (under LockSpec) ----
\* With concurrent callers of one in-memory repository: a caller holds a
\* guard of the map lock exactly while it is between the first statement of
\* get_by_id / list / count / add / delete and that method's return, where
\* nothing is awaited; a caller that is outside the methods or at the await
\* of update (self.add(entity).await) holds none; and no operation, update
\* with its inner add included, takes the lock more than once.
C22_NoGuardAcrossAwait ==
    \A c \in Callers :
        /\ c \in Holders <=> tasks[c].pc \in {"read", "got", "write", "partly"}
        /\ tasks[c].pc \in {"idle", "await", "handler"} => c \notin Holders
        /\ tasks[c].pc = "await" => tasks[c].locks = 0
        /\ tasks[c].locks <= 1
        /\ tasks[c].pc \in {"read", "got", "write", "partly"} => tasks[c].locks = 1

\* one caller is at the await of update, holding nothing, while another is
\* inside add, part-way through its insert, holding the write guard
C22_Witness ==
    \E c, d \in Callers :
        /\ tasks[c].pc = "await" /\ tasks[c].op = "update"
        /\ c \notin Holders
        /\ tasks[d].pc = "partly" /\ tasks[d].op = "update"
        /\ tasks[d].locks = 1
        /\ rwlock.writer = Some(d)

\* ---- C23 (under DecoratedSpec) ----
\* RepositoryEx.delete of an aggregate x with pending events e1..en: the
\* wrapped delete is the last thing the call does, after the handler has
\* returned Ok for every one of e1..en in order.  If the handler fails, on
\* ek, that is the last thing the call does: the wrapped delete was not
\* called, the handler's error is returned, and the entry of x's identity
\* is what the handler of e(k-1) stored (k >= 2); the failing invocation
\* itself leaves the store as it was, and no step of the handler loop
\* removes the entry of x's identity.
C23_DeleteHandlesFirst ==
    /\ []((decorator = "RepositoryEx" /\ pc = "done" /\ ret.op = "delete") =>
            LET x == ret.given[1]
                tr == ret.trace
                k == Len(HandleEntries(tr))
            IN  /\ \A j \in 1..Len(tr) :
                      tr[j].kind = "repository" =>
                          /\ j = Len(tr)
                          /\ EventsOf(tr) = x.domain_events
                          /\ \A h \in 1..(j - 1) : tr[h].result.ok
                /\ \A j \in 1..Len(tr) :
                      (tr[j].kind = "handle" /\ ~tr[j].result.ok) =>
                          /\ j = Len(tr)
                          /\ RepositoryEntries(tr) = <<>>
                          /\ EventsOf(tr) = SubSeq(x.domain_events, 1, k)
                          /\ ret.result = tr[j].result
                          /\ k >= 2 =>
                                HashMap_get(entities, id(x)) =
                                    Some([drain_domain_events(x)[1] EXCEPT
                                             !.my_field = x.domain_events[k - 1]]))
    /\ [][(decorator = "RepositoryEx" /\ op = "delete" /\ pc = "handle") =>
             /\ id(entity) \in Keys(entities) => id(entity) \in Keys(entities')
             /\ (pc' = "done" /\ ~ret'.result.ok) => entities' = entities]_vars

\* RepositoryEx.delete of a stored aggregate with two pending events: the
\* handler failed on the second, delete was never called, the error came
\* back and the aggregate is still stored
C23_Witness ==
    /\ decorator = "RepositoryEx"
    /\ pc = "done"
    /\ ret.op = "delete"
    /\ Len(ret.given[1].domain_events) = 2
    /\ Len(ret.trace) = 2
    /\ ret.trace[1].kind = "handle" /\ ret.trace[1].result.ok
    /\ ret.trace[2].kind = "handle" /\ ~ret.trace[2].result.ok
    /\ ret.result = ret.trace[2].result
    /\ id(ret.given[1]) \in Keys(entities)
    /\ HashMap_len(entities) = 2

\* ---- C24 (under DecoratedSpec) ----
\* RepositoryEx.add / update of an aggregate x, once the wrapped repository
\* has returned Ok(y): the first handler invocation receives y with its
\* event buffer emptied, every later invocation receives the entity the
\* invocation before it returned, and a call that returns Ok returns the
\* entity the last invocation returned.  When x has no pending event the
\* handler is not invoked and the call returns y.
C24_HandlersChained ==
    (/\ decorator = "RepositoryEx"
     /\ pc = "done"
     /\ ret.op \in {"add", "update"}
     /\ ret.trace[1].result.ok) =>
        LET x == ret.given[1]
            y == ret.trace[1].result.value
            hs == HandleEntries(ret.trace)
        IN  /\ ret.trace[1].kind = "repository"
            /\ y = x
            /\ hs # <<>> => hs[1].entity = Some(drain_domain_events(y)[1])
            /\ \A h \in 2..Len(hs) : hs[h].entity = Some(hs[h - 1].result.value)
            /\ ret.result.ok =>
                  /\ Len(hs) = Len(x.domain_events)
                  /\ ret.result.value =
                        IF hs = <<>> THEN y ELSE hs[Len(hs)].result.value
            /\ x.domain_events = <<>> => (hs = <<>> /\ ret.result = Ok(y))

\* RepositoryEx.update of an aggregate with two pending events returned
\* what the second handler invocation returned, which had received what
\* the first returned, a changed entity
C24_Witness ==
    /\ decorator = "RepositoryEx"
    /\ pc = "done"
    /\ ret.op = "update"
    /\ ret.result.ok
    /\ Len(HandleEntries(ret.trace)) = 2
    /\ ret.trace[3].entity = Some(ret.trace[2].result.value)
    /\ ret.trace[2].result.value # unwrap(ret.trace[2].entity)
    /\ ret.result.value = ret.trace[3].result.value
    /\ ret.result.value # ret.trace[2].result.value

\* the trace entries of the batch element i
ElemEntries(tr, i) == SelectSeq(tr, LAMBDA t : t.elem = i)

\* ---- C25 (under RangeSpec) ----
\* add_range on either decorator, given x1..xn: the trace of the batch is
\* one block per element, in input order; every element the batch went
\* beyond was stored once, successfully, and had every one of its pending
\* events handled successfully, in order, before the next element's add.
\* If a handler fails on an event of xi: that is the end of the batch, its
\* error is returned, each of x1..xi was handed to the wrapped add exactly
\* once, successfully, and its identity has an entry in the store, and
\* nothing was stored or handled for x(i+1)..xn.
C25_RangeInterleaves ==
    (pc = "done" /\ ret.op = "add_range") =>
        LET tr == ret.trace
            last == IF tr = <<>> THEN 0 ELSE tr[Len(tr)].elem
        IN  /\ \A j \in 1..(Len(tr) - 1) : tr[j].elem <= tr[j + 1].elem
            /\ \A i \in 1..(last - 1) :
                  /\ Len(RepositoryEntries(ElemEntries(tr, i))) = 1
                  /\ \A j \in 1..Len(ElemEntries(tr, i)) :
                        ElemEntries(tr, i)[j].result.ok
                  /\ EventsOf(ElemEntries(tr, i)) = ret.given[i].domain_events
            /\ (tr # <<>> /\ tr[Len(tr)].kind = "handle"
                          /\ ~tr[Len(tr)].result.ok) =>
                  /\ ret.result = tr[Len(tr)].result
                  /\ ret.remaining = Len(ret.given) - last
                  /\ \A i \in 1..last :
                        /\ Len(RepositoryEntries(ElemEntries(tr, i))) = 1
                        /\ RepositoryEntries(ElemEntries(tr, i))[1].result.ok
                        /\ id(ret.given[i]) \in Keys(entities)
                  /\ \A i \in (last + 1)..Len(ret.given) :
                        ElemEntries(tr, i) = <<>>

\* add_range of two aggregates with different identities to a new
\* repository: the handler failed on the event of the first, which is
\* stored; the second was neither stored nor its event handled
C25_Witness ==
    /\ pc = "done"
    /\ ret.op = "add_range"
    /\ Len(ret.given) = 2
    /\ ret.given[1].domain_events # <<>>
    /\ ret.given[2].domain_events # <<>>
    /\ ~ret.result.ok
    /\ ret.trace[Len(ret.trace)].kind = "handle"
    /\ ret.trace[Len(ret.trace)].elem = 1
    /\ Keys(entities) = {id(ret.given[1])}
    /\ id(ret.given[2]) # id(ret.given[1])

\* ---- C26 (under LockSpec) ----
\* With concurrent add / update / delete calls on one in-memory repository:
\* for every identity with no write inside the map, the entry is exactly
\* what the write of that identity that took the lock last leaves (its
\* aggregate after add / update, no entry after delete, no entry if there
\* was no write); and every get_by_id answers that same outcome, which is
\* None or an aggregate some caller passed to add / update, whole.
C26_LastLockerWins ==
    /\ \A i \in DecoratedIds :
          (\A c \in Callers :
              ~(tasks[c].pc \in {"write", "partly"} /\ id(tasks[c].arg) = i)) =>
                  HashMap_get(entities, i) = written[i]
    /\ \A c \in Callers :
          (tasks[c].pc = "got" /\ tasks[c].op = "get_by_id") =>
              /\ tasks[c].arg[2] = Ok(written[tasks[c].arg[1]])
              /\ tasks[c].arg[2].value \in {None} \cup {Some(e) : e \in LockEntities}

\* a get_by_id has read the aggregate written last while another caller is
\* at the await of an update of the same identity with another value
C26_Witness ==
    \E c, d \in Callers :
        /\ tasks[c].pc = "got" /\ tasks[c].op = "get_by_id"
        /\ is_some(tasks[c].arg[2].value)
        /\ tasks[d].pc = "await"
        /\ id(tasks[d].arg) = tasks[c].arg[1]
        /\ tasks[d].arg # unwrap(tasks[c].arg[2].value)
        /\ HashMap_len(entities) = 2

\* ---- C27 (under FairSpec) ----
\* the callers whose call in progress is waiting for the guard
Waiting ==
    {c \in FairCallers :
        \/ tasks[c].pc \in {"called", "await"}
        \/ tasks[c].pc = "pending" /\ Head(tasks[c].todo).op \in {"add", "delete"}}

\* the callers that hold a guard
FairHolders == rwlock.readers \cup {c \in FairCallers : rwlock.writer = Some(c)}

\* the callers whose next step is possible now
CanStep ==
    {c \in FairCallers :
        \/ tasks[c].pc \in {"read", "got", "write", "partly"}
        \/ tasks[c].pc = "pending" /\ Head(tasks[c].todo).op \in {"handle", "update"}
        \/ tasks[c].pc = "called" /\ RwLock_can_read(rwlock)
        \/ c \in Waiting /\ tasks[c].pc # "called" /\ RwLock_can_write(rwlock)}

\* C27 (original statement). Under a fair scheduler every repository call that was made completes: a
\* direct get_by_id / add / update / delete of the in-memory repository,
\* update's inner add, and a RepositoryEx add / update / delete whose handler
\* calls update on the same repository.
C27_CallsComplete ==
    \A c \in FairCallers : (tasks[c].pc # "idle") ~> (tasks[c].pc = "idle")

\* C27. No interleaving deadlocks on the map lock: whenever calls are in progress
\* one of them can step, and whoever holds a guard is running inside a method
\* and is not waiting for the guard again, also when the call comes from a
\* handler inside a RepositoryEx call.  Every call completes unless it ends
\* up waiting for the guard for ever while other callers keep taking it.
C27_NoDeadlock ==
    /\ []((\E c \in FairCallers : tasks[c].pc # "idle") => CanStep # {})
    /\ [](FairHolders \cap Waiting = {})
    /\ \A c \in FairCallers :
          \/ <>[](c \in Waiting)
          \/ [](tasks[c].pc # "idle" => <>(tasks[c].pc = "idle"))

\* a handler's update is inside the map (the decorator's own add is behind
\* it, its aggregate stored with the pending event) while two other callers
\* have calls in progress, one of them waiting for the guard
C27_Witness ==
    \E c, d, e \in FairCallers :
        /\ tasks[c].pc = "partly" /\ tasks[c].op = "update"
        /\ tasks[c].arg.my_field = "bar"
        /\ HashMap_len(entities) = 1
        /\ entities[1].value.domain_events = <<"bar">>
        /\ tasks[d].pc = "called"
        /\ tasks[e].pc = "pending" /\ Head(tasks[e].todo).op = "handle"

\* ---- C28 (under Spec) ----
\* In every reachable state of the in-memory repository each entry is stored
\* under the identity of the aggregate it holds (v.id() = k for every entry
\* k -> v), and a get_by_id(k) that finds an aggregate returns one whose id
\* is k.
C28_KeyedByIdentity ==
    /\ \A k \in 1..Len(entities) : id(entities[k].value) = entities[k].key
    /\ (ret.op = "get_by_id" /\ is_some(ret.result.value)) =>
          id(unwrap(ret.result.value)) = ret.id

\* a get_by_id found an aggregate in a repository that holds several
C28_Witness ==
    /\ ret.op = "get_by_id"
    /\ is_some(ret.result.value)
    /\ HashMap_len(entities) >= 2

\* ---- C29 (under Spec) ----
\* the identity the call that has just returned was given an aggregate of
Touched(r) == IF r.op \in {"add", "update", "delete"} THEN {id(r.entity)} ELSE {}

\* C29. No operation of the in-memory repository changes an entry stored under an
\* identity other than that of its argument: across add(x), update(x) and
\* delete(x) every identity other than x.id() keeps its entry (or stays
\* absent), and get_by_id, list, count, exists and is_empty leave the whole
\* map as it was, order of iteration included.
C29_OtherEntriesUntouched ==
    [][/\ \A i \in Ids \ Touched(ret') :
             HashMap_get(entities', i) = HashMap_get(entities, i)
       /\ ret'.op \in {"get_by_id", "list", "count", "exists", "is_empty"} =>
             entities' = entities]_vars

\* a delete removed an entry from a repository that holds other entries
C29_Witness ==
    /\ ret.op = "delete"
    /\ is_some(ret.before)
    /\ HashMap_len(entities) >= 2

\* ---- C30 (under EnumSpec) ----
\* whether a.partial_cmp(&b) of the derived enum is Some(o)
Cmp(a, b, o) == Enum_partial_cmp(a, b) = Some(o)

\* C30. For a ValueObject derived on an enum with only unit variants, comparison
\* is a total order consistent with equality: two values are equal exactly
\* when they are the same variant; for two different variants exactly one of
\* less / greater holds, with a < b exactly when b > a; the relation is
\* transitive; and a variant declared earlier compares Greater than every
\* variant declared later.  Every comparison the program made returned what
\* this order says.
C30_UnitEnumTotalOrder ==
    /\ \A i, j \in 1..3 :
          LET a == given[i]
              b == given[j]
          IN  /\ Enum_eq(a, b) <=> a = b
              /\ Cmp(a, b, "Equal") <=> a = b
              /\ a # b => (Cmp(a, b, "Less") <=> ~Cmp(a, b, "Greater"))
              /\ a # b => ~Enum_eq(a, b)
              /\ Cmp(a, b, "Less") <=> Cmp(b, a, "Greater")
              /\ a < b => Cmp(a, b, "Greater")
    /\ (Cmp(given[1], given[2], "Less") /\ Cmp(given[2], given[3], "Less")) =>
          Cmp(given[1], given[3], "Less")
    /\ ret.op = "eq" => (ret.value <=> ret.a = ret.b)
    /\ ret.op = "partial_cmp" =>
          ret.value = IF ret.a = ret.b THEN Some("Equal")
                      ELSE IF ret.a < ret.b THEN Some("Greater") ELSE Some("Less")
    /\ ret.op = "clone" => ret.b = ret.a

\* the first declared variant was compared with the last declared one (and
\* came out Greater), among three values in descending order
C30_Witness ==
    /\ ret.op = "partial_cmp"
    /\ ret.a = 1 /\ ret.b = MaxVariants
    /\ ret.value = Some("Greater")
    /\ Cmp(given[1], given[2], "Less") /\ Cmp(given[2], given[3], "Less")

====
